---- MODULE Spec2Model ----
(***************************************************************************)
(* Apple ID-token verification and its JWKS key cache                      *)
(* (src/pkg/oauth2/apple/verify.go).                                       *)
(*                                                                         *)
(* Goroutines call VerifyIDToken concurrently.  Each call reads the kid of *)
(* the unverified token, resolves the public key through getApplePublicKey *)
(* (one process-wide cache guarded by jwksCache.mu, refreshed lazily from  *)
(* the JWKS endpoint), lets jwt.Parse verify the signature and the         *)
(* registered claims, and then validates exp, iat, aud and iss itself.     *)
(*                                                                         *)
(* Time is the wall clock in whole seconds.  Errors are the sequences of   *)
(* messages that fmt.Errorf("...: %w", err) wraps, outermost first.        *)
(***************************************************************************)
EXTENDS Integers, Sequences, FiniteSets, TLC

(***************************************************************************)
(* Bounds of the model.                                                    *)
(***************************************************************************)
\* Number of goroutines calling VerifyIDToken concurrently.
NProcs == 2
\* Number of times the clock advances in a behaviour.
MaxTicks == 2

Procs == 1..NProcs

(***************************************************************************)
(* Program constants.                                                      *)
(***************************************************************************)
\* jwksCacheDuration = 1 * time.Hour, in seconds.
jwksCacheDuration == 3600
clockSkewToleranceSec == 60
\* time.Time{}: the zero time lies before every reading of the clock.
ZeroTime == 0
AppleIssuer == "https://appleid.apple.com"

(***************************************************************************)
(* Errors: the message of every fmt.Errorf of VerifyIDToken and            *)
(* getApplePublicKey, and of the jwt errors that jwt.Parse returns.        *)
(***************************************************************************)
ErrParse == "failed to parse token"
ErrMissingKid == "missing kid in token header"
ErrGetKey == "failed to get public key"
ErrKeyNotFound == "key not found in JWKS"
ErrCreateRequest == "creating JWKS request"
ErrFetch == "failed to fetch JWKS"
ErrStatus == "JWKS endpoint returned status"
ErrDecode == "failed to decode JWKS"
ErrVerification == "token verification failed"
ErrExpired == "token has expired"
ErrMissingExp == "missing exp claim"
ErrFuture == "token issued in the future"
ErrInvalidAud == "invalid audience"
ErrMissingAud == "missing aud claim"
ErrInvalidIss == "invalid issuer"
ErrMissingIss == "missing iss claim"
\* golang-jwt/v5 errors.
JwtUnverifiable == "token is unverifiable"
JwtSignatureInvalid == "token signature is invalid"
JwtInvalidClaims == "token has invalid claims"
JwtExpired == "token is expired"
JwtNotValidYet == "token is not valid yet"

NoError == <<>>

(***************************************************************************)
(* Keys.  A public key is its curve and its two coordinates.               *)
(***************************************************************************)
Kids == {"K1", "K2"}
NoKid == "<no kid>"

NilKey == [Curve |-> "", X |-> 0, Y |-> 0]
Key1 == [Curve |-> "P-256", X |-> 1, Y |-> 2]
Key2 == [Curve |-> "P-384", X |-> 3, Y |-> 1]
\* A key pair that the provider never publishes.
ForgedKey == [Curve |-> "P-256", X |-> 2, Y |-> 2]

\* make(map[string]*ecdsa.PublicKey): a kid that is absent maps to NilKey.
EmptyKeys == [k \in Kids |-> NilKey]

(***************************************************************************)
(* base64.RawURLEncoding.DecodeString followed by big.Int.SetBytes, on the *)
(* coordinate strings that JWKS documents of the model carry: unpadded     *)
(* base64url of one byte, or the empty string (no bytes: the number 0).   *)
(* A padded or non-alphabet string does not decode.                        *)
(***************************************************************************)
B64Table ==
  [s \in {"", "AQ", "Ag", "Aw"} |->
     CASE s = "" -> 0 [] s = "AQ" -> 1 [] s = "Ag" -> 2 [] s = "Aw" -> 3]

B64Decodes(s) == s \in DOMAIN B64Table

B64Value(s) == B64Table[s]

(***************************************************************************)
(* JWKS documents the endpoint may serve.                                  *)
(***************************************************************************)
Entry(kty, kid, use, crv, x, y) ==
  [Kty |-> kty, Kid |-> kid, Use |-> use, Crv |-> crv, X |-> x, Y |-> y]

\* Only K1 is published.
DocK1 == << Entry("EC", "K1", "sig", "P-256", "AQ", "Ag") >>
\* After rotation: K1 is dropped, K2 is published beside an RSA key.
DocK2 == << Entry("RSA", "K1", "sig", "", "", ""), Entry("EC", "K2", "sig", "P-384", "Aw", "AQ") >>
\* Both keys are published.
DocBoth == << Entry("EC", "K1", "sig", "P-256", "AQ", "Ag"), Entry("EC", "K2", "sig", "P-384", "Aw", "AQ") >>
\* K1 with a padded coordinate, K2 on a curve the code does not know, and
\* K1 as an encryption key.
DocBad ==
  << Entry("EC", "K1", "sig", "P-256", "AQ==", "Ag"),
     Entry("EC", "K2", "sig", "secp256k1", "Aw", "AQ"),
     Entry("EC", "K1", "enc", "P-256", "AQ", "Ag") >>

Docs == {DocK1, DocK2, DocBoth, DocBad}

(***************************************************************************)
(* Tokens.  A token is what VerifyIDToken can observe of the token string: *)
(* whether it parses, the kid and alg of its header, the key pair that     *)
(* produced its signature, and its claims.  A numeric claim that is absent *)
(* is NoNum, a string claim that is absent is NoStr.                       *)
(***************************************************************************)
NoNum == -1
NoStr == "<absent>"
ECDSAAlgs == {"ES256", "ES384", "ES512"}
ExpectedAud == "com.example.app"
\* An exp later than every reading of the clock the model reaches.
FarFuture == 100000

\* The subject of the tokens: the user the token's signer signs for.
SubOf(signer) ==
  IF signer = Key2 THEN "apple-user-456" ELSE "apple-user-123"

Token(wf, kid, alg, signer, exp, nbf, iat, aud, iss) ==
  [Wellformed |-> wf, Kid |-> kid, Alg |-> alg, SignedBy |-> signer,
   Exp |-> exp, Nbf |-> nbf, Iat |-> iat, Aud |-> aud, Iss |-> iss,
   Sub |-> SubOf(signer)]

\* The claims VerifyIDToken returns with an error: a nil map.
NilClaims ==
  [exp |-> NoNum, nbf |-> NoNum, iat |-> NoNum, aud |-> NoStr, iss |-> NoStr,
   sub |-> NoStr]

\* Claims that keep only what the validation looked at.
ClaimsValidatedOnly(t) ==
  [exp |-> t.Exp, nbf |-> NoNum, iat |-> t.Iat, aud |-> t.Aud, iss |-> t.Iss,
   sub |-> NoStr]

\* parsedToken.Claims (line 66): the whole payload of the token.
Claims(t) ==
  [exp |-> t.Exp, nbf |-> t.Nbf, iat |-> t.Iat, aud |-> t.Aud, iss |-> t.Iss,
   sub |-> t.Sub]

\* The token of a goroutine that is not inside VerifyIDToken.
NoToken == Token(FALSE, NoKid, "", NilKey, NoNum, NoNum, NoNum, NoStr, NoStr)

\* A token with valid claims, as Apple issues it.
GoodToken(kid, alg, signer) ==
  Token(TRUE, kid, alg, signer, FarFuture, NoNum, 0, ExpectedAud, AppleIssuer)

\* The tokens of the concurrent specification: they differ in the header
\* and the signature.
CacheTokens ==
  { GoodToken("K1", "ES256", Key1),
    GoodToken("K2", "ES384", Key2),
    GoodToken("K1", "ES256", ForgedKey),
    GoodToken("K1", "HS256", Key1),
    GoodToken(NoKid, "ES256", Key1),
    Token(FALSE, "K1", "ES256", Key1, FarFuture, NoNum, 0, ExpectedAud, AppleIssuer) }

(***************************************************************************)
(* jwt.Parse(tokenString, keyfunc) of golang-jwt/v5 with the keyfunc of    *)
(* VerifyIDToken, for a token that ParseUnverified accepted.  In order:    *)
(* the keyfunc (rejects every method that is not *SigningMethodECDSA),     *)
(* the signature under the key the keyfunc returned, then the validator's  *)
(* default checks, which have no leeway: exp, when present, must be after  *)
(* now; nbf, when present, must not be after now.  iat, aud and iss are    *)
(* not checked by default.  The result is the error, NoError when the      *)
(* token is valid.                                                         *)
(***************************************************************************)
KeyfuncAcceptsAny(alg) == TRUE

KeyfuncAccepts(alg) == alg \in ECDSAAlgs

SigVerifies(tok, key) == key # NilKey /\ tok.SignedBy = key

JwtValidate(tok, t) ==
  (IF tok.Exp # NoNum /\ ~(t < tok.Exp) THEN <<JwtExpired>> ELSE <<>>)
  \o (IF tok.Nbf # NoNum /\ t < tok.Nbf THEN <<JwtNotValidYet>> ELSE <<>>)

\* A parser that validates the claims before it verifies the signature.
jwtParseClaimsFirst(tok, key, t) ==
  IF ~KeyfuncAccepts(tok.Alg) THEN <<JwtUnverifiable>>
  ELSE IF JwtValidate(tok, t) # <<>> THEN <<JwtInvalidClaims>> \o JwtValidate(tok, t)
  ELSE IF ~SigVerifies(tok, key) THEN <<JwtSignatureInvalid>>
  ELSE NoError

jwtParse(tok, key, t) ==
  IF ~KeyfuncAccepts(tok.Alg) THEN <<JwtUnverifiable>>
  ELSE IF ~SigVerifies(tok, key) THEN <<JwtSignatureInvalid>>
  ELSE IF JwtValidate(tok, t) # <<>> THEN <<JwtInvalidClaims>> \o JwtValidate(tok, t)
  ELSE NoError

(***************************************************************************)
(* The claim validation of VerifyIDToken (lines 71-107), on the claims of  *)
(* a token that jwt.Parse accepted, at clock reading t.                    *)
(***************************************************************************)
\* A validation that only requires the audience to be present.
ValidateClaimsAnyAud(tok, audience, t) ==
  IF tok.Exp = NoNum THEN <<ErrMissingExp>>
  ELSE IF tok.Exp + clockSkewToleranceSec < t THEN <<ErrExpired>>
  ELSE IF tok.Iat # NoNum /\ tok.Iat > t + clockSkewToleranceSec THEN <<ErrFuture>>
  ELSE IF tok.Aud = NoStr THEN <<ErrMissingAud>>
  ELSE IF tok.Iss = NoStr THEN <<ErrMissingIss>>
  ELSE IF tok.Iss # AppleIssuer THEN <<ErrInvalidIss>>
  ELSE NoError

\* A validation that only requires the issuer to be present.
ValidateClaimsAnyIss(tok, audience, t) ==
  IF tok.Exp = NoNum THEN <<ErrMissingExp>>
  ELSE IF tok.Exp + clockSkewToleranceSec < t THEN <<ErrExpired>>
  ELSE IF tok.Iat # NoNum /\ tok.Iat > t + clockSkewToleranceSec THEN <<ErrFuture>>
  ELSE IF tok.Aud = NoStr THEN <<ErrMissingAud>>
  ELSE IF tok.Aud # audience THEN <<ErrInvalidAud>>
  ELSE IF tok.Iss = NoStr THEN <<ErrMissingIss>>
  ELSE NoError

\* A validation whose iat check has no clock skew tolerance.
ValidateClaimsStrictIat(tok, audience, t) ==
  IF tok.Exp = NoNum THEN <<ErrMissingExp>>
  ELSE IF tok.Exp + clockSkewToleranceSec < t THEN <<ErrExpired>>
  ELSE IF tok.Iat # NoNum /\ tok.Iat > t THEN <<ErrFuture>>
  ELSE IF tok.Aud = NoStr THEN <<ErrMissingAud>>
  ELSE IF tok.Aud # audience THEN <<ErrInvalidAud>>
  ELSE IF tok.Iss = NoStr THEN <<ErrMissingIss>>
  ELSE IF tok.Iss # AppleIssuer THEN <<ErrInvalidIss>>
  ELSE NoError

\* A validation that checks exp only if it is present, as it does iat.
ValidateClaimsOptionalExp(tok, audience, t) ==
  IF tok.Exp # NoNum /\ tok.Exp + clockSkewToleranceSec < t THEN <<ErrExpired>>
  ELSE IF tok.Iat # NoNum /\ tok.Iat > t + clockSkewToleranceSec THEN <<ErrFuture>>
  ELSE IF tok.Aud = NoStr THEN <<ErrMissingAud>>
  ELSE IF tok.Aud # audience THEN <<ErrInvalidAud>>
  ELSE IF tok.Iss = NoStr THEN <<ErrMissingIss>>
  ELSE IF tok.Iss # AppleIssuer THEN <<ErrInvalidIss>>
  ELSE NoError

ValidateClaims(tok, audience, t) ==
  IF tok.Exp = NoNum THEN <<ErrMissingExp>>
  ELSE IF tok.Exp + clockSkewToleranceSec < t THEN <<ErrExpired>>
  ELSE IF tok.Iat # NoNum /\ tok.Iat > t + clockSkewToleranceSec THEN <<ErrFuture>>
  ELSE IF tok.Aud = NoStr THEN <<ErrMissingAud>>
  ELSE IF tok.Aud # audience THEN <<ErrInvalidAud>>
  ELSE IF tok.Iss = NoStr THEN <<ErrMissingIss>>
  ELSE IF tok.Iss # AppleIssuer THEN <<ErrInvalidIss>>
  ELSE NoError

(***************************************************************************)
(* The JWKS loop of getApplePublicKey (lines 155-187).                     *)
(***************************************************************************)
KnownCurves == {"P-256", "P-384", "P-521"}

\* A loop whose switch on the curve has no default case.
AcceptableAnyCurve(k) ==
  /\ k.Kty = "EC"
  /\ k.Use = "sig"
  /\ B64Decodes(k.X)
  /\ B64Decodes(k.Y)

\* Whether the loop installs entry k (it reaches line 186).
Acceptable(k) ==
  /\ k.Kty = "EC"
  /\ k.Use = "sig"
  /\ B64Decodes(k.X)
  /\ B64Decodes(k.Y)
  /\ k.Crv \in KnownCurves

PubKey(k) == [Curve |-> k.Crv, X |-> B64Value(k.X), Y |-> B64Value(k.Y)]

\* One iteration of the loop on entry k.
AddEntry(m, k) ==
  IF Acceptable(k) /\ k.Kid \in Kids THEN [m EXCEPT ![k.Kid] = PubKey(k)] ELSE m

\* The map after the first n entries of doc.
RECURSIVE BuildKeys(_, _)
BuildKeys(doc, n) ==
  IF n = 0 THEN EmptyKeys ELSE AddEntry(BuildKeys(doc, n - 1), doc[n])

\* The complete map of a document.
DocKeys(doc) == BuildKeys(doc, Len(doc))

\* What lines 124-153 can produce: no request (http.NewRequestWithContext
\* fails: the ctx of the call is nil), no response (a transport error, a
\* cancelled ctx, the client timeout), a response with a status other than
\* 200, a response with status 200 whose body is not a JWKS document, or
\* status 200 with a JWKS document.
NoRequest == "no request"
RequestError == "request not created"
TransportError == "transport error"
StatusUnavailable == "status 503"
UndecodableBody == "status 200, undecodable body"
StatusOK == "status 200"
FailedOutcomes ==
  {RequestError, TransportError, StatusUnavailable, UndecodableBody}

(***************************************************************************)
(* ExchangeCode of package google (src/pkg/oauth2/oauth2.go, lines 75-106) *)
(* and of package apple (verify.go, lines 229-260): the same code but for  *)
(* the URL of the token endpoint.  The code, client id, client secret,     *)
(* redirect URI and code verifier only fill the form that is posted.       *)
(***************************************************************************)
ErrExchange == "token exchange failed"

Providers == {"google", "apple"}

TokenEndpoint(pr) ==
  IF pr = "google" THEN "https://oauth2.googleapis.com/token"
  ELSE "https://appleid.apple.com/auth/token"

\* The ctx argument: nil makes http.NewRequestWithContext fail.
NilCtx == "nil"
Background == "context.Background()"
Contexts == {NilCtx, Background}

\* Response bodies.  A JSON object is given by the members that matter, an
\* absent member being the empty string (as json.Decoder leaves the field).
Body(json, at, idt, tt, e) ==
  [Json |-> json, access_token |-> at, id_token |-> idt, token_type |-> tt,
   error |-> e]

NotJSON == Body(FALSE, "", "", "", "")
TokenBody == Body(TRUE, "at-1", "idt-1", "Bearer", "")
ErrorBody == Body(TRUE, "", "", "", "invalid_grant")

\* What the request to the token endpoint produced.
HTTPReply(kind, status, body) == [Kind |-> kind, Status |-> status, Body |-> body]

Responded == "response"
NoReply == HTTPReply(NoRequest, 0, NotJSON)
RequestNotCreated == HTTPReply(RequestError, 0, NotJSON)
TransportFailed == HTTPReply(TransportError, 0, NotJSON)

\* What httpClient.Do can produce.
Replies ==
  { TransportFailed,
    HTTPReply(Responded, 400, ErrorBody),
    HTTPReply(Responded, 503, NotJSON),
    HTTPReply(Responded, 200, NotJSON),
    HTTPReply(Responded, 200, ErrorBody),
    HTTPReply(Responded, 200, TokenBody) }

\* A *TokenResponse: nil, or the struct the body was decoded into.
TokenResponse(nil, at, idt, tt) ==
  [Nil |-> nil, AccessToken |-> at, IDToken |-> idt, TokenType |-> tt]

NilTokenResponse == TokenResponse(TRUE, "", "", "")

\* json.NewDecoder(resp.Body).Decode(&token) on a JSON object.
DecodeToken(b) == TokenResponse(FALSE, b.access_token, b.id_token, b.token_type)

Returned(token, e) == [Token |-> token, Err |-> e]

\* An exchange that decodes the body whatever the status is.
ExchangeResultAnyStatus(r) ==
  IF r.Kind = RequestError THEN Returned(NilTokenResponse, <<ErrExchange>>)
  ELSE IF r.Kind = TransportError THEN Returned(NilTokenResponse, <<ErrExchange>>)
  ELSE IF ~r.Body.Json THEN Returned(NilTokenResponse, <<ErrExchange>>)
  ELSE Returned(DecodeToken(r.Body), NoError)

\* What ExchangeCode returns when its request produced r.
ExchangeResult(r) ==
  IF r.Kind = RequestError THEN Returned(NilTokenResponse, <<ErrExchange>>)
  ELSE IF r.Kind = TransportError THEN Returned(NilTokenResponse, <<ErrExchange>>)
  ELSE IF r.Status # 200 THEN Returned(NilTokenResponse, <<ErrExchange>>)
  ELSE IF ~r.Body.Json THEN Returned(NilTokenResponse, <<ErrExchange>>)
  ELSE Returned(DecodeToken(r.Body), NoError)

(***************************************************************************)
(* GenerateClientSecret (verify.go, lines 265-294).                        *)
(***************************************************************************)
ErrPEM == "failed to decode PEM block"
ErrParseKey == "parsing private key"
X509Error == "x509: failed to parse private key"
ErrNotECDSA == "key is not ECDSA"
JwtInvalidKey == "key is invalid"

\* A private key: its type, its curve and its secret scalar.
PrivateKey(type, crv, d) == [Type |-> type, Curve |-> crv, D |-> d]

\* The public key of an EC private key.
PublicOf(k) == [Curve |-> k.Curve, X |-> k.D + 1, Y |-> k.D + 2]

\* The privateKeyPEM argument: whether pem.Decode finds a block, whether
\* the block is PKCS8, and the key in it.
PEM(isPem, isPkcs8, key) == [Pem |-> isPem, Pkcs8 |-> isPkcs8, Key |-> key]

PEMs ==
  { PEM(FALSE, FALSE, PrivateKey("", "", 0)),
    PEM(TRUE, FALSE, PrivateKey("EC", "P-256", 5)),
    PEM(TRUE, TRUE, PrivateKey("RSA", "", 7)),
    PEM(TRUE, TRUE, PrivateKey("EC", "P-384", 3)),
    PEM(TRUE, TRUE, PrivateKey("EC", "P-256", 5)) }

\* A client secret: the empty string, or a signed JWT.
JWT(empty, alg, kid, iss, sub, aud, iat, exp, signer) ==
  [Empty |-> empty, Alg |-> alg, Kid |-> kid, Iss |-> iss, Sub |-> sub,
   Aud |-> aud, Iat |-> iat, Exp |-> exp, SignedBy |-> signer]

EmptySecret == JWT(TRUE, "", NoKid, NoStr, NoStr, NoStr, NoNum, NoNum, NilKey)

\* 5 * time.Minute, in seconds.
ClientSecretLifetime == 300

Generated(sec, e) == [Secret |-> sec, Err |-> e]

\* A generator that stamps the secret with the time the process started.
GenerateClientSecretStale(teamID, clientID, keyID, pem, t) ==
  IF ~pem.Pem THEN Generated(EmptySecret, <<ErrPEM>>)
  ELSE IF ~pem.Pkcs8 THEN Generated(EmptySecret, <<ErrParseKey, X509Error>>)
  ELSE IF pem.Key.Type # "EC" THEN Generated(EmptySecret, <<ErrNotECDSA>>)
  ELSE IF pem.Key.Curve # "P-256" THEN Generated(EmptySecret, <<JwtInvalidKey>>)
  ELSE Generated(JWT(FALSE, "ES256", keyID, teamID, clientID, AppleIssuer,
                     ZeroTime, ZeroTime + ClientSecretLifetime, PublicOf(pem.Key)),
                 NoError)

\* GenerateClientSecret at clock reading t.  SignedString with ES256 refuses
\* a key that is not on P-256.
GenerateClientSecret(teamID, clientID, keyID, pem, t) ==
  IF ~pem.Pem THEN Generated(EmptySecret, <<ErrPEM>>)
  ELSE IF ~pem.Pkcs8 THEN Generated(EmptySecret, <<ErrParseKey, X509Error>>)
  ELSE IF pem.Key.Type # "EC" THEN Generated(EmptySecret, <<ErrNotECDSA>>)
  ELSE IF pem.Key.Curve # "P-256" THEN Generated(EmptySecret, <<JwtInvalidKey>>)
  ELSE Generated(JWT(FALSE, "ES256", keyID, teamID, clientID, AppleIssuer,
                     t, t + ClientSecretLifetime, PublicOf(pem.Key)),
                 NoError)

\* The calls a goroutine can be in.
NoCall == [Fn |-> "none"]
VerifyCall == [Fn |-> "VerifyIDToken"]
ExchangeCodeCall(pr, ctx) == [Fn |-> "ExchangeCode", Provider |-> pr, Ctx |-> ctx]
SecretCall(teamID, clientID, keyID, pem) ==
  [Fn |-> "GenerateClientSecret", TeamID |-> teamID, ClientID |-> clientID,
   KeyID |-> keyID, Pem |-> pem]

(***************************************************************************)
(* GeneratePKCE (src/pkg/oauth2/oauth2.go, lines 25-39).  A string is the  *)
(* sequence of the codes of its characters, a byte a number in 0..255.     *)
(***************************************************************************)
\* The bound on byteLength.
MaxBytes == 2

\* The byte values rand.Read is taken to produce.
ByteValues == {0, 1, 62, 63, 97, 128, 251, 255}

\* The character of the URL-safe alphabet for a 6-bit value: A-Z, a-z, 0-9,
\* '-', '_'.
URLChar(i) ==
  IF i < 26 THEN 65 + i
  ELSE IF i < 52 THEN 97 + (i - 26)
  ELSE IF i < 62 THEN 48 + (i - 52)
  ELSE IF i = 62 THEN 45
  ELSE 95

\* The leading three bytes of b (or as many as b has) as characters.
EncodeQuantum(b) ==
  IF Len(b) = 1
    THEN << URLChar(b[1] \div 4), URLChar((b[1] % 4) * 16) >>
  ELSE IF Len(b) = 2
    THEN << URLChar(b[1] \div 4), URLChar((b[1] % 4) * 16 + b[2] \div 16),
            URLChar((b[2] % 16) * 4) >>
  ELSE << URLChar(b[1] \div 4), URLChar((b[1] % 4) * 16 + b[2] \div 16),
          URLChar((b[2] % 16) * 4 + b[3] \div 64), URLChar(b[3] % 64) >>

\* base64.RawURLEncoding.EncodeToString: no padding.
RECURSIVE RawURLEncode(_)
RawURLEncode(b) ==
  IF Len(b) = 0 THEN <<>>
  ELSE IF Len(b) <= 3 THEN EncodeQuantum(b)
  ELSE EncodeQuantum(SubSeq(b, 1, 3)) \o RawURLEncode(SubSeq(b, 4, Len(b)))

\* sha256.Sum256, scaled down: a deterministic digest of two bytes that
\* depends on every byte of the input and on their order.
RECURSIVE Mix(_, _)
Mix(h, b) ==
  IF Len(b) = 0 THEN h
  ELSE Mix((h * 33 + b[1] + 1) % (256 * 256), Tail(b))

Sum256(b) == << Mix(5381, b) \div 256, Mix(5381, b) % 256 >>

\* What rand.Read did: failed, or filled the buffer.
Entropy(ok, b) == [Ok |-> ok, Bytes |-> b]

ErrRand == "rand.Read failed"

\* A (*PKCE, error) result; Called is FALSE until GeneratePKCE has returned.
PKCEResult(called, nil, v, c, e) ==
  [Called |-> called, Nil |-> nil, Verifier |-> v, Challenge |-> c, Err |-> e]

NotCalled == PKCEResult(FALSE, TRUE, <<>>, <<>>, NoError)

\* A generator that digests the random bytes instead of the verifier string.
GeneratePKCEDigestsBytes(byteLength, rnd) ==
  IF ~rnd.Ok THEN PKCEResult(TRUE, TRUE, <<>>, <<>>, <<ErrRand>>)
  ELSE PKCEResult(TRUE, FALSE, RawURLEncode(rnd.Bytes),
                  RawURLEncode(Sum256(rnd.Bytes)), NoError)

\* GeneratePKCE(byteLength) when rand.Read does rnd.  []byte(verifier) is the
\* sequence of the verifier's character codes: the verifier is ASCII.
GeneratePKCE(byteLength, rnd) ==
  IF ~rnd.Ok THEN PKCEResult(TRUE, TRUE, <<>>, <<>>, <<ErrRand>>)
  ELSE PKCEResult(TRUE, FALSE, RawURLEncode(rnd.Bytes),
                  RawURLEncode(Sum256(RawURLEncode(rnd.Bytes))), NoError)

(***************************************************************************)
(* State.                                                                  *)
(***************************************************************************)
VARIABLES
  now,          \* the wall clock, in seconds
  ticks,        \* how many times the clock has advanced
  mu,           \* jwksCache.mu: TRUE while locked
  keys,         \* jwksCache.keys
  expiresAt,    \* jwksCache.expiresAt
  pc,           \* where each goroutine is in VerifyIDToken
  tok,          \* the token each goroutine verifies
  publicKey,    \* the key getApplePublicKey returned to it
  resp,         \* the JWKS document it decoded
  idx,          \* the entry of resp its loop is at
  newKeys,      \* its newKeys map
  err,          \* the error its call returned (NoError: none)
  claims,       \* the claims its call returned
  fetches,      \* history: fetch attempts (entries into lines 123-153) of its current call
  response,      \* history: what the JWKS request of its current call produced
  waited,       \* history: the last refresh that ended while it was blocked in Lock
  lastRefresh,  \* history: when the cache was last replaced
  lastDoc,      \* history: the document the cache was last replaced from
  lastKid,      \* history: the kid that the lookup which last replaced the cache asked for
  call,         \* the function the goroutine called last, with its arguments
  posts,        \* history: requests its ExchangeCode call has sent to the token endpoint
  reply,        \* what the token endpoint request of its call produced
  tokenResponse,\* the *TokenResponse its ExchangeCode call returned
  secret,       \* the client secret its GenerateClientSecret call returned
  byteLength,   \* the argument of the GeneratePKCE call
  random,       \* what rand.Read does in that call
  pkce          \* what the GeneratePKCE call returned

vars ==
  << now, ticks, mu, keys, expiresAt, pc, tok, publicKey, resp, idx, newKeys,
     err, claims, fetches, response, waited, lastRefresh, lastDoc,
     lastKid, call, posts, reply, tokenResponse, secret,
     byteLength, random, pkce >>

cacheVars == << keys, expiresAt, lastRefresh, lastDoc, lastKid >>

clockVars == << now, ticks >>

loopVars == << resp, idx, newKeys >>

pkceVars == << byteLength, random, pkce >>

svcVars == << call, posts, reply, tokenResponse, secret, pkceVars >>

\* Values of the history variables.
Never == -1
NotWaited == -1
WaitedFailed == -2

\* pc: "idle" before the first call, "done" once a call has returned (err and
\* publicKey keep what the call produced until the goroutine calls again);
\* resp, idx and newKeys are locals of getApplePublicKey and are reset when it
\* returns.

\* The goroutine is between Lock (line 112) and the deferred Unlock.
InCritical(p) == pc[p] \in {"check", "fetching", "build"}

Init ==
  /\ now = 0
  /\ ticks = 0
  /\ mu = FALSE
  /\ keys = EmptyKeys
  /\ expiresAt = ZeroTime
  /\ pc = [p \in Procs |-> "idle"]
  /\ tok = [p \in Procs |-> NoToken]
  /\ publicKey = [p \in Procs |-> NilKey]
  /\ resp = [p \in Procs |-> <<>>]
  /\ idx = [p \in Procs |-> 0]
  /\ newKeys = [p \in Procs |-> EmptyKeys]
  /\ err = [p \in Procs |-> NoError]
  /\ claims = [p \in Procs |-> NilClaims]
  /\ fetches = [p \in Procs |-> 0]
  /\ response = [p \in Procs |-> NoRequest]
  /\ waited = [p \in Procs |-> NotWaited]
  /\ lastRefresh = Never
  /\ lastDoc = <<>>
  /\ lastKid = NoKid
  /\ call = [p \in Procs |-> NoCall]
  /\ posts = [p \in Procs |-> 0]
  /\ reply = [p \in Procs |-> NoReply]
  /\ tokenResponse = [p \in Procs |-> NilTokenResponse]
  /\ secret = [p \in Procs |-> EmptySecret]
  /\ byteLength = 0
  /\ random = Entropy(FALSE, <<>>)
  /\ pkce = NotCalled

\* A call of VerifyIDToken leaves nothing of what the goroutine's earlier
\* ExchangeCode or GenerateClientSecret call returned.
DiscardsServiceResults(p) ==
  /\ call' = [call EXCEPT ![p] = VerifyCall]
  /\ posts' = [posts EXCEPT ![p] = 0]
  /\ reply' = [reply EXCEPT ![p] = NoReply]
  /\ tokenResponse' = [tokenResponse EXCEPT ![p] = NilTokenResponse]
  /\ secret' = [secret EXCEPT ![p] = EmptySecret]

(***************************************************************************)
(* VerifyIDToken, lines 36-52: parse without verification, read the kid.   *)
(***************************************************************************)
\* A call that resolves the key before it looks at the kid.
CallKidUnchecked(p, t) ==
  /\ pc[p] \in {"idle", "done"}
  /\ tok' = [tok EXCEPT ![p] = t]
  /\ publicKey' = [publicKey EXCEPT ![p] = NilKey]
  /\ fetches' = [fetches EXCEPT ![p] = 0]
  /\ claims' = [claims EXCEPT ![p] = NilClaims]
  /\ response' = [response EXCEPT ![p] = NoRequest]
  /\ IF ~t.Wellformed
       THEN /\ pc' = [pc EXCEPT ![p] = "done"]
            /\ err' = [err EXCEPT ![p] = <<ErrParse>>]
       ELSE /\ pc' = [pc EXCEPT ![p] = "lock"]
            /\ err' = [err EXCEPT ![p] = NoError]
  /\ DiscardsServiceResults(p)
  /\ UNCHANGED << mu, waited, cacheVars, clockVars, loopVars, pkceVars >>

\* A call that rejects a header without an ECDSA algorithm before it
\* resolves the key.
CallAlgChecked(p, t) ==
  /\ pc[p] \in {"idle", "done"}
  /\ tok' = [tok EXCEPT ![p] = t]
  /\ publicKey' = [publicKey EXCEPT ![p] = NilKey]
  /\ fetches' = [fetches EXCEPT ![p] = 0]
  /\ claims' = [claims EXCEPT ![p] = NilClaims]
  /\ response' = [response EXCEPT ![p] = NoRequest]
  /\ IF ~t.Wellformed
       THEN /\ pc' = [pc EXCEPT ![p] = "done"]
            /\ err' = [err EXCEPT ![p] = <<ErrParse>>]
     ELSE IF t.Kid = NoKid
       THEN /\ pc' = [pc EXCEPT ![p] = "done"]
            /\ err' = [err EXCEPT ![p] = <<ErrMissingKid>>]
     ELSE IF ~KeyfuncAccepts(t.Alg)
       THEN /\ pc' = [pc EXCEPT ![p] = "done"]
            /\ err' = [err EXCEPT ![p] = <<ErrVerification, JwtUnverifiable>>]
     ELSE /\ pc' = [pc EXCEPT ![p] = "lock"]
          /\ err' = [err EXCEPT ![p] = NoError]
  /\ DiscardsServiceResults(p)
  /\ UNCHANGED << mu, waited, cacheVars, clockVars, loopVars, pkceVars >>

Call(p, t) ==
  /\ pc[p] \in {"idle", "done"}
  /\ tok' = [tok EXCEPT ![p] = t]
  /\ publicKey' = [publicKey EXCEPT ![p] = NilKey]
  /\ fetches' = [fetches EXCEPT ![p] = 0]
  /\ claims' = [claims EXCEPT ![p] = NilClaims]
  /\ response' = [response EXCEPT ![p] = NoRequest]
  /\ IF ~t.Wellformed
       THEN /\ pc' = [pc EXCEPT ![p] = "done"]
            /\ err' = [err EXCEPT ![p] = <<ErrParse>>]
     ELSE IF t.Kid = NoKid
       THEN /\ pc' = [pc EXCEPT ![p] = "done"]
            /\ err' = [err EXCEPT ![p] = <<ErrMissingKid>>]
     ELSE /\ pc' = [pc EXCEPT ![p] = "lock"]
          /\ err' = [err EXCEPT ![p] = NoError]
  /\ DiscardsServiceResults(p)
  /\ UNCHANGED << mu, waited, cacheVars, clockVars, loopVars, pkceVars >>

(***************************************************************************)
(* getApplePublicKey.                                                      *)
(***************************************************************************)
\* sync.Mutex.Lock returns only when the mutex is unlocked.
CanLockAlways(m) == TRUE

CanLock(m) == m = FALSE

\* jwksCache.mu.Lock(), line 112.
Lock(p) ==
  /\ pc[p] = "lock"
  /\ CanLock(mu)
  /\ mu' = TRUE
  /\ pc' = [pc EXCEPT ![p] = "check"]
  /\ UNCHANGED << tok, claims, response, publicKey, err, fetches, waited, cacheVars, clockVars, svcVars, loopVars >>

\* time.Now().Before(jwksCache.expiresAt), line 115.
CacheValidNever(t, e) == FALSE

CacheValidAlways(t, e) == TRUE

CacheValid(t, e) == t < e

\* Whether the lookup goes on to fetch (lines 116-123): a valid cache
\* answers, with the key or with the error, whether or not it has the kid.
RefetchesOnMiss(cacheValid, found) == ~cacheValid \/ ~found

Refetches(cacheValid, found) == ~cacheValid

\* Lines 115-129: answer from a valid cache, or send the JWKS request.
CheckCache(p) ==
  /\ pc[p] = "check"
  /\ LET cacheValid == CacheValid(now, expiresAt)
         key == keys[tok[p].Kid]
     IN  IF cacheValid /\ key # NilKey
           THEN /\ publicKey' = [publicKey EXCEPT ![p] = key]
                /\ pc' = [pc EXCEPT ![p] = "verify"]
                /\ mu' = FALSE
                /\ UNCHANGED << err, fetches >>
         ELSE IF ~Refetches(cacheValid, key # NilKey)
           THEN /\ err' = [err EXCEPT ![p] = <<ErrGetKey, ErrKeyNotFound>>]
                /\ pc' = [pc EXCEPT ![p] = "done"]
                /\ mu' = FALSE
                /\ UNCHANGED << publicKey, fetches >>
         ELSE /\ pc' = [pc EXCEPT ![p] = "fetching"]
              /\ fetches' = [fetches EXCEPT ![p] = @ + 1]
              /\ UNCHANGED << mu, publicKey, err >>
  /\ waited' = [waited EXCEPT ![p] = NotWaited]
  /\ UNCHANGED << tok, claims, response, cacheVars, clockVars, svcVars, loopVars >>

\* The goroutines blocked in Lock when p's refresh ends learn its outcome.
WaitersSee(p, outcome) ==
  [q \in Procs |-> IF q # p /\ pc[q] = "lock" THEN outcome ELSE waited[q]]

\* An error mapping that reports every failure as a failed fetch.
FetchErrorAlwaysFetch(o) == ErrFetch

\* The error of lines 129-153 for a request that produced o.
FetchError(o) ==
  IF o = RequestError THEN ErrCreateRequest
  ELSE IF o = TransportError THEN ErrFetch
  ELSE IF o = StatusUnavailable THEN ErrStatus
  ELSE ErrDecode

\* A failed refresh that backs off: it holds further fetches off for a minute.
FetchFailBackoff(p, o) ==
  /\ pc[p] = "fetching"
  /\ response' = [response EXCEPT ![p] = o]
  /\ err' = [err EXCEPT ![p] = <<ErrGetKey, FetchError(o)>>]
  /\ pc' = [pc EXCEPT ![p] = "done"]
  /\ mu' = FALSE
  /\ waited' = WaitersSee(p, WaitedFailed)
  /\ expiresAt' = now + clockSkewToleranceSec
  /\ UNCHANGED << tok, claims, publicKey, fetches, keys, lastRefresh, lastDoc,
                  lastKid, clockVars, svcVars, loopVars >>

\* A failed refresh that returns without the deferred Unlock.
FetchFailNoUnlock(p, o) ==
  /\ pc[p] = "fetching"
  /\ response' = [response EXCEPT ![p] = o]
  /\ err' = [err EXCEPT ![p] = <<ErrGetKey, FetchError(o)>>]
  /\ pc' = [pc EXCEPT ![p] = "done"]
  /\ UNCHANGED << mu, waited, tok, claims, publicKey, fetches, cacheVars, clockVars, svcVars, loopVars >>

\* Lines 124-153: the request cannot be created or fails, the status is not
\* 200, or the body does not decode.  The deferred Unlock runs; the cache is
\* untouched.
FetchFail(p, o) ==
  /\ pc[p] = "fetching"
  /\ response' = [response EXCEPT ![p] = o]
  /\ err' = [err EXCEPT ![p] = <<ErrGetKey, FetchError(o)>>]
  /\ pc' = [pc EXCEPT ![p] = "done"]
  /\ mu' = FALSE
  /\ waited' = WaitersSee(p, WaitedFailed)
  /\ UNCHANGED << tok, claims, publicKey, fetches, cacheVars, clockVars, svcVars, loopVars >>

\* Lines 129-155: status 200 and a body that decodes to doc.
FetchOk(p, doc) ==
  /\ pc[p] = "fetching"
  /\ response' = [response EXCEPT ![p] = StatusOK]
  /\ resp' = [resp EXCEPT ![p] = doc]
  /\ idx' = [idx EXCEPT ![p] = 1]
  /\ newKeys' = [newKeys EXCEPT ![p] = EmptyKeys]
  /\ pc' = [pc EXCEPT ![p] = "build"]
  /\ UNCHANGED << mu, tok, claims, publicKey, err, fetches, waited, cacheVars, clockVars, svcVars >>

\* A loop that fills the shared map in place.
BuildInPlace(p) ==
  /\ pc[p] = "build"
  /\ idx[p] <= Len(resp[p])
  /\ newKeys' = [newKeys EXCEPT ![p] = AddEntry(@, resp[p][idx[p]])]
  /\ keys' = newKeys'[p]
  /\ idx' = [idx EXCEPT ![p] = @ + 1]
  /\ UNCHANGED << mu, pc, tok, claims, response, publicKey, resp, err, fetches, waited,
                  expiresAt, lastRefresh, lastDoc, lastKid, clockVars, svcVars >>

\* Lines 156-187: one iteration of the loop over jwks.Keys.
Build(p) ==
  /\ pc[p] = "build"
  /\ idx[p] <= Len(resp[p])
  /\ newKeys' = [newKeys EXCEPT ![p] = AddEntry(@, resp[p][idx[p]])]
  /\ idx' = [idx EXCEPT ![p] = @ + 1]
  /\ UNCHANGED << mu, pc, tok, claims, response, publicKey, resp, err, fetches, waited, cacheVars, clockVars, svcVars >>

\* time.Now().Add(jwksCacheDuration), line 190.
NewExpiryNow(t) == t

NewExpiry(t) == t + jwksCacheDuration

\* The keys of map m added to map old.
Merge(old, m) == [k \in Kids |-> IF m[k] # NilKey THEN m[k] ELSE old[k]]

\* A refresh that adds the fetched keys to the cached map.
InstallMerge(p) ==
  /\ pc[p] = "build"
  /\ idx[p] > Len(resp[p])
  /\ keys' = Merge(keys, newKeys[p])
  /\ expiresAt' = NewExpiry(now)
  /\ lastRefresh' = now
  /\ lastDoc' = resp[p]
  /\ lastKid' = tok[p].Kid
  /\ LET key == newKeys[p][tok[p].Kid]
     IN  IF key # NilKey
           THEN /\ publicKey' = [publicKey EXCEPT ![p] = key]
                /\ pc' = [pc EXCEPT ![p] = "verify"]
                /\ err' = err
           ELSE /\ err' = [err EXCEPT ![p] = <<ErrGetKey, ErrKeyNotFound>>]
                /\ pc' = [pc EXCEPT ![p] = "done"]
                /\ publicKey' = publicKey
  /\ mu' = FALSE
  /\ waited' = WaitersSee(p, now)
  /\ resp' = [resp EXCEPT ![p] = <<>>]
  /\ idx' = [idx EXCEPT ![p] = 0]
  /\ newKeys' = [newKeys EXCEPT ![p] = EmptyKeys]
  /\ UNCHANGED << tok, claims, response, fetches, clockVars, svcVars >>

\* A refresh that replaces the cache only if it serves the kid asked for.
InstallOnlyIfFound(p) ==
  /\ pc[p] = "build"
  /\ idx[p] > Len(resp[p])
  /\ LET key == newKeys[p][tok[p].Kid]
     IN  IF key # NilKey
           THEN /\ keys' = newKeys[p]
                /\ expiresAt' = NewExpiry(now)
                /\ lastRefresh' = now
                /\ lastDoc' = resp[p]
                /\ lastKid' = tok[p].Kid
                /\ publicKey' = [publicKey EXCEPT ![p] = key]
                /\ pc' = [pc EXCEPT ![p] = "verify"]
                /\ err' = err
                /\ waited' = WaitersSee(p, now)
           ELSE /\ err' = [err EXCEPT ![p] = <<ErrGetKey, ErrKeyNotFound>>]
                /\ pc' = [pc EXCEPT ![p] = "done"]
                /\ publicKey' = publicKey
                /\ waited' = WaitersSee(p, WaitedFailed)
                /\ UNCHANGED cacheVars
  /\ mu' = FALSE
  /\ resp' = [resp EXCEPT ![p] = <<>>]
  /\ idx' = [idx EXCEPT ![p] = 0]
  /\ newKeys' = [newKeys EXCEPT ![p] = EmptyKeys]
  /\ UNCHANGED << tok, claims, response, fetches, clockVars, svcVars >>

\* Lines 189-196: replace the cache, look the kid up in the new map.
Install(p) ==
  /\ pc[p] = "build"
  /\ idx[p] > Len(resp[p])
  /\ keys' = newKeys[p]
  /\ expiresAt' = NewExpiry(now)
  /\ lastRefresh' = now
  /\ lastDoc' = resp[p]
  /\ lastKid' = tok[p].Kid
  /\ LET key == newKeys[p][tok[p].Kid]
     IN  IF key # NilKey
           THEN /\ publicKey' = [publicKey EXCEPT ![p] = key]
                /\ pc' = [pc EXCEPT ![p] = "verify"]
                /\ err' = err
           ELSE /\ err' = [err EXCEPT ![p] = <<ErrGetKey, ErrKeyNotFound>>]
                /\ pc' = [pc EXCEPT ![p] = "done"]
                /\ publicKey' = publicKey
  /\ mu' = FALSE
  /\ waited' = WaitersSee(p, now)
  /\ resp' = [resp EXCEPT ![p] = <<>>]
  /\ idx' = [idx EXCEPT ![p] = 0]
  /\ newKeys' = [newKeys EXCEPT ![p] = EmptyKeys]
  /\ UNCHANGED << tok, claims, response, fetches, clockVars, svcVars >>

(***************************************************************************)
(* VerifyIDToken, lines 54-108.                                            *)
(***************************************************************************)
\* Lines 55-69: jwt.Parse with the keyfunc.
VerifyParse(p) ==
  /\ pc[p] = "verify"
  /\ LET e == jwtParse(tok[p], publicKey[p], now)
     IN  IF e # NoError
           THEN /\ err' = [err EXCEPT ![p] = <<ErrVerification>> \o e]
                /\ pc' = [pc EXCEPT ![p] = "done"]
           ELSE /\ pc' = [pc EXCEPT ![p] = "claims"]
                /\ err' = err
  /\ UNCHANGED << mu, tok, claims, response, publicKey, fetches, waited, cacheVars, clockVars, svcVars, loopVars >>

\* Lines 71-107: the claims, at a new reading of the clock.
VerifyClaims(p) ==
  /\ pc[p] = "claims"
  /\ err' = [err EXCEPT ![p] = ValidateClaims(tok[p], ExpectedAud, now)]
  /\ claims' = [claims EXCEPT ![p] =
                  IF err'[p] = NoError THEN Claims(tok[p]) ELSE NilClaims]
  /\ pc' = [pc EXCEPT ![p] = "done"]
  /\ UNCHANGED << mu, tok, response, publicKey, fetches, waited, cacheVars, clockVars, svcVars, loopVars >>

(***************************************************************************)
(* ExchangeCode, google (oauth2.go 75-106) and apple (verify.go 229-260).  *)
(***************************************************************************)
\* The goroutine starts a call other than VerifyIDToken: nothing is left of
\* what its earlier lookup returned.
DiscardsLookupResults(p) ==
  /\ tok' = [tok EXCEPT ![p] = NoToken]
  /\ publicKey' = [publicKey EXCEPT ![p] = NilKey]
  /\ fetches' = [fetches EXCEPT ![p] = 0]
  /\ claims' = [claims EXCEPT ![p] = NilClaims]
  /\ response' = [response EXCEPT ![p] = NoRequest]

\* The form is built and the request is created; with a request,
\* httpClient.Do sends it.
ExchangeCall(p, pr, ctx) ==
  /\ pc[p] \in {"idle", "done"}
  /\ call' = [call EXCEPT ![p] = ExchangeCodeCall(pr, ctx)]
  /\ DiscardsLookupResults(p)
  /\ secret' = [secret EXCEPT ![p] = EmptySecret]
  /\ IF ctx = NilCtx
       THEN /\ pc' = [pc EXCEPT ![p] = "done"]
            /\ posts' = [posts EXCEPT ![p] = 0]
            /\ reply' = [reply EXCEPT ![p] = RequestNotCreated]
            /\ tokenResponse' =
                 [tokenResponse EXCEPT ![p] = ExchangeResult(RequestNotCreated).Token]
            /\ err' = [err EXCEPT ![p] = ExchangeResult(RequestNotCreated).Err]
       ELSE /\ pc' = [pc EXCEPT ![p] = "post"]
            /\ posts' = [posts EXCEPT ![p] = 1]
            /\ reply' = [reply EXCEPT ![p] = NoReply]
            /\ tokenResponse' = [tokenResponse EXCEPT ![p] = NilTokenResponse]
            /\ err' = [err EXCEPT ![p] = NoError]
  /\ UNCHANGED << mu, waited, cacheVars, clockVars, loopVars, pkceVars >>

\* An exchange that posts again when its request failed.
ExchangeReplyRetries(p, r) ==
  /\ pc[p] = "post"
  /\ reply' = [reply EXCEPT ![p] = r]
  /\ IF ExchangeResult(r).Err # NoError /\ posts[p] < 2
       THEN /\ posts' = [posts EXCEPT ![p] = posts[p] + 1]
            /\ UNCHANGED << pc, tokenResponse, err >>
       ELSE /\ pc' = [pc EXCEPT ![p] = "done"]
            /\ tokenResponse' = [tokenResponse EXCEPT ![p] = ExchangeResult(r).Token]
            /\ err' = [err EXCEPT ![p] = ExchangeResult(r).Err]
            /\ UNCHANGED posts
  /\ UNCHANGED << mu, tok, publicKey, claims, response, fetches, waited, call,
                  secret, cacheVars, clockVars, loopVars, pkceVars >>

\* httpClient.Do returns r; the status is checked, the body decoded, and
\* ExchangeCode returns.
ExchangeReply(p, r) ==
  /\ pc[p] = "post"
  /\ reply' = [reply EXCEPT ![p] = r]
  /\ pc' = [pc EXCEPT ![p] = "done"]
  /\ tokenResponse' = [tokenResponse EXCEPT ![p] = ExchangeResult(r).Token]
  /\ err' = [err EXCEPT ![p] = ExchangeResult(r).Err]
  /\ UNCHANGED << mu, tok, publicKey, claims, response, fetches, waited, call,
                  posts, secret, cacheVars, clockVars, loopVars, pkceVars >>

(***************************************************************************)
(* GenerateClientSecret (verify.go 265-294): one step, it shares nothing.  *)
(***************************************************************************)
TeamIDs == {"TEAM123"}
ClientIDs == {"com.example.app"}
KeyIDs == {"KEY456", "KEY789"}

GenSecret(p, teamID, clientID, keyID, pem) ==
  /\ pc[p] \in {"idle", "done"}
  /\ call' = [call EXCEPT ![p] = SecretCall(teamID, clientID, keyID, pem)]
  /\ DiscardsLookupResults(p)
  /\ posts' = [posts EXCEPT ![p] = 0]
  /\ reply' = [reply EXCEPT ![p] = NoReply]
  /\ tokenResponse' = [tokenResponse EXCEPT ![p] = NilTokenResponse]
  /\ pc' = [pc EXCEPT ![p] = "done"]
  /\ secret' = [secret EXCEPT ![p] =
                  GenerateClientSecret(teamID, clientID, keyID, pem, now).Secret]
  /\ err' = [err EXCEPT ![p] =
               GenerateClientSecret(teamID, clientID, keyID, pem, now).Err]
  /\ UNCHANGED << mu, waited, cacheVars, clockVars, loopVars, pkceVars >>

(***************************************************************************)
(* GeneratePKCE (oauth2.go 25-39).                                         *)
(***************************************************************************)
GeneratePKCECall ==
  /\ ~pkce.Called
  /\ byteLength > 0
  /\ pkce' = GeneratePKCE(byteLength, random)
  /\ UNCHANGED << mu, pc, tok, publicKey, err, claims, fetches, response, waited,
                  call, posts, reply, tokenResponse, secret, byteLength,
                  random, cacheVars, clockVars, loopVars >>

(***************************************************************************)
(* The clock.  It advances by a second or by a second less than the cache  *)
(* duration, so that both sides of every expiry are reached.               *)
(***************************************************************************)
TickSteps == {1, jwksCacheDuration - 1}

Tick(d) ==
  /\ ticks < MaxTicks
  /\ now' = now + d
  /\ ticks' = ticks + 1
  /\ UNCHANGED << mu, pc, tok, claims, response, publicKey, err, fetches, waited, cacheVars, loopVars, svcVars >>

FetchErrors == {ErrCreateRequest, ErrFetch, ErrStatus, ErrDecode}

Next ==
  \/ \E p \in Procs, t \in CacheTokens : Call(p, t)
  \/ \E p \in Procs : Lock(p)
  \/ \E p \in Procs : CheckCache(p)
  \/ \E p \in Procs, o \in FailedOutcomes : FetchFail(p, o)
  \/ \E p \in Procs, doc \in Docs : FetchOk(p, doc)
  \/ \E p \in Procs : Build(p)
  \/ \E p \in Procs : Install(p)
  \/ \E p \in Procs : VerifyParse(p)
  \/ \E p \in Procs : VerifyClaims(p)
  \/ \E d \in TickSteps : Tick(d)

Spec == Init /\ [][Next]_vars

(***************************************************************************)
(* The verification of one token whose key is resolved (lines 54-108), on  *)
(* the whole space of headers and claims.  The goroutine has just left     *)
(* getApplePublicKey, which refreshed the cache from DocK1 at VerifyT0 and *)
(* returned Key1.                                                          *)
(***************************************************************************)
\* The clock reading at which the verification starts.
VerifyT0 == 7200

ExpValues ==
  { NoNum, VerifyT0 - 7200, VerifyT0 - 61, VerifyT0 - 60, VerifyT0 - 30,
    VerifyT0, VerifyT0 + 1, VerifyT0 + 300 }

VerifyTokens ==
  { Token(TRUE, "K1", alg, signer, exp, nbf, iat, aud, iss) :
      alg \in {"ES256", "HS256"},
      signer \in {Key1, ForgedKey},
      exp \in ExpValues,
      nbf \in {NoNum, VerifyT0 + 300},
      iat \in {NoNum, VerifyT0, VerifyT0 + 60, VerifyT0 + 61},
      aud \in {NoStr, ExpectedAud, "com.wrong.app"},
      iss \in {NoStr, AppleIssuer, "https://accounts.example.com"} }

InitVerify ==
  /\ now = VerifyT0
  /\ ticks = 0
  /\ mu = FALSE
  /\ keys = DocKeys(DocK1)
  /\ expiresAt = VerifyT0 + jwksCacheDuration
  /\ lastRefresh = VerifyT0
  /\ lastDoc = DocK1
  /\ lastKid = "K1"
  /\ \E t \in VerifyTokens :
       tok = [p \in Procs |-> IF p = 1 THEN t ELSE NoToken]
  /\ pc = [p \in Procs |-> IF p = 1 THEN "verify" ELSE "idle"]
  /\ publicKey = [p \in Procs |-> IF p = 1 THEN Key1 ELSE NilKey]
  /\ fetches = [p \in Procs |-> IF p = 1 THEN 1 ELSE 0]
  /\ response = [p \in Procs |-> IF p = 1 THEN StatusOK ELSE NoRequest]
  /\ resp = [p \in Procs |-> <<>>]
  /\ idx = [p \in Procs |-> 0]
  /\ newKeys = [p \in Procs |-> EmptyKeys]
  /\ err = [p \in Procs |-> NoError]
  /\ claims = [p \in Procs |-> NilClaims]
  /\ waited = [p \in Procs |-> NotWaited]
  /\ call = [p \in Procs |-> IF p = 1 THEN VerifyCall ELSE NoCall]
  /\ posts = [p \in Procs |-> 0]
  /\ reply = [p \in Procs |-> NoReply]
  /\ tokenResponse = [p \in Procs |-> NilTokenResponse]
  /\ secret = [p \in Procs |-> EmptySecret]
  /\ byteLength = 0
  /\ random = Entropy(FALSE, <<>>)
  /\ pkce = NotCalled

NextVerify ==
  \/ \E p \in Procs : VerifyParse(p)
  \/ \E p \in Procs : VerifyClaims(p)
  \/ \E d \in TickSteps : Tick(d)

SpecVerify == InitVerify /\ [][NextVerify]_vars

(***************************************************************************)
(* The key lookups under fair scheduling: a goroutine that is inside       *)
(* VerifyIDToken keeps running, the request to the JWKS endpoint ends (the *)
(* client timeout of 10 s bounds it, line 217), and a goroutine blocked in *)
(* Lock is not passed over forever (sync.Mutex hands the mutex to a waiter *)
(* that has been starving).  Whether a goroutine calls at all, and whether *)
(* the clock advances, is left open.                                       *)
(***************************************************************************)
LiveTokens == {GoodToken("K1", "ES256", Key1), GoodToken("K2", "ES384", Key2)}

NextLive ==
  \/ \E p \in Procs, t \in LiveTokens : Call(p, t)
  \/ \E p \in Procs : Lock(p)
  \/ \E p \in Procs : CheckCache(p)
  \/ \E p \in Procs, o \in FailedOutcomes : FetchFail(p, o)
  \/ \E p \in Procs : FetchOk(p, DocK1)
  \/ \E p \in Procs : Build(p)
  \/ \E p \in Procs : Install(p)
  \/ \E p \in Procs : VerifyParse(p)
  \/ \E p \in Procs : VerifyClaims(p)
  \/ \E d \in TickSteps : Tick(d)

FairLookups ==
  \A p \in Procs :
    /\ SF_vars(Lock(p))
    /\ WF_vars(CheckCache(p))
    /\ WF_vars((\E o \in FailedOutcomes : FetchFail(p, o)) \/ FetchOk(p, DocK1))
    /\ WF_vars(Build(p))
    /\ WF_vars(Install(p))
    /\ WF_vars(VerifyParse(p))
    /\ WF_vars(VerifyClaims(p))

SpecLive == Init /\ [][NextLive]_vars /\ FairLookups

(***************************************************************************)
(* The three entry points of package apple and ExchangeCode of package     *)
(* google, called by the goroutines in any order and interleaving, against *)
(* a JWKS endpoint that serves DocK1 or fails.                             *)
(***************************************************************************)
NextServices ==
  \/ \E p \in Procs, t \in LiveTokens : Call(p, t)
  \/ \E p \in Procs : Lock(p)
  \/ \E p \in Procs : CheckCache(p)
  \/ \E p \in Procs, o \in FailedOutcomes : FetchFail(p, o)
  \/ \E p \in Procs : FetchOk(p, DocK1)
  \/ \E p \in Procs : Build(p)
  \/ \E p \in Procs : Install(p)
  \/ \E p \in Procs : VerifyParse(p)
  \/ \E p \in Procs : VerifyClaims(p)
  \/ \E p \in Procs, pr \in Providers, ctx \in Contexts : ExchangeCall(p, pr, ctx)
  \/ \E p \in Procs, r \in Replies : ExchangeReply(p, r)
  \/ \E p \in Procs, teamID \in TeamIDs, clientID \in ClientIDs,
        keyID \in KeyIDs, pem \in PEMs : GenSecret(p, teamID, clientID, keyID, pem)
  \/ \E d \in TickSteps : Tick(d)

SpecServices == Init /\ [][NextServices]_vars

(***************************************************************************)
(* GeneratePKCE on every byteLength in 1..MaxBytes and everything          *)
(* rand.Read can do with a buffer of that length.                          *)
(***************************************************************************)
Entropies(n) ==
  {Entropy(FALSE, <<>>)} \cup {Entropy(TRUE, b) : b \in [1..n -> ByteValues]}

InitPKCE ==
  /\ now = 0
  /\ ticks = 0
  /\ mu = FALSE
  /\ keys = EmptyKeys
  /\ expiresAt = ZeroTime
  /\ pc = [p \in Procs |-> "idle"]
  /\ tok = [p \in Procs |-> NoToken]
  /\ publicKey = [p \in Procs |-> NilKey]
  /\ resp = [p \in Procs |-> <<>>]
  /\ idx = [p \in Procs |-> 0]
  /\ newKeys = [p \in Procs |-> EmptyKeys]
  /\ err = [p \in Procs |-> NoError]
  /\ claims = [p \in Procs |-> NilClaims]
  /\ fetches = [p \in Procs |-> 0]
  /\ response = [p \in Procs |-> NoRequest]
  /\ waited = [p \in Procs |-> NotWaited]
  /\ lastRefresh = Never
  /\ lastDoc = <<>>
  /\ lastKid = NoKid
  /\ call = [p \in Procs |-> NoCall]
  /\ posts = [p \in Procs |-> 0]
  /\ reply = [p \in Procs |-> NoReply]
  /\ tokenResponse = [p \in Procs |-> NilTokenResponse]
  /\ secret = [p \in Procs |-> EmptySecret]
  /\ byteLength \in 1..MaxBytes
  /\ random \in Entropies(byteLength)
  /\ pkce = NotCalled

NextPKCE == GeneratePKCECall

SpecPKCE == InitPKCE /\ [][NextPKCE]_vars

(***************************************************************************)
(* Properties.                                                             *)
(***************************************************************************)
\* A goroutine leaves the cache check towards the JWKS endpoint in this step.
IssuesFetch(p) == pc[p] = "check" /\ pc'[p] = "fetching"

\* The goroutine's lookup is decided by the cache check in this step.
LeavesCheck(p) == pc[p] = "check" /\ pc'[p] # "check"

KeyNotFound == <<ErrGetKey, ErrKeyNotFound>>

\* C1: the critical section of the JWKS cache is mutually exclusive: at most
\* one goroutine is between Lock and Unlock (reading or refreshing the
\* cache), the mutex is held while one is, and at most one JWKS request is
\* in flight.
C1_MutualExclusion ==
  /\ Cardinality({p \in Procs : InCritical(p)}) <= 1
  /\ Cardinality({p \in Procs : pc[p] = "fetching"}) <= 1
  /\ (\E p \in Procs : InCritical(p)) => mu = TRUE

\* C1 witness: a JWKS request is in flight while another goroutine is
\* blocked in Lock.
C1_Witness ==
  \E p, q \in Procs : p # q /\ pc[p] = "fetching" /\ pc[q] = "lock"

\* C2 as stated: a goroutine that waited in Lock during another goroutine's
\* refresh never sends a JWKS request of its own once it has the lock.
C2_WaiterNeverFetches ==
  [][\A p \in Procs : IssuesFetch(p) => waited[p] = NotWaited]_vars

\* C2 amended: a goroutine that waited in Lock during a refresh that
\* succeeded sends no JWKS request of its own unless the cache duration has
\* passed since that refresh (after a refresh that failed it does fetch).
C2_WaiterFetchesOnlyAfterFailureOrExpiry ==
  [][\A p \in Procs :
       (IssuesFetch(p) /\ waited[p] >= 0) => now >= waited[p] + jwksCacheDuration]_vars

\* C2 witness: a goroutine that waited through a successful refresh holds
\* the lock and finds the cache valid.
C2_Witness ==
  \E p \in Procs : pc[p] = "check" /\ waited[p] >= 0 /\ now < expiresAt

\* C3: a lookup that finds the cache fresh (now < expiresAt) without the
\* requested kid returns the key-not-found error, sends no JWKS request and
\* leaves the cache as it is.
C3_FreshMissNoFetch ==
  [][\A p \in Procs :
       (LeavesCheck(p) /\ now < expiresAt /\ keys[tok[p].Kid] = NilKey)
         => /\ pc'[p] = "done"
            /\ err'[p] = KeyNotFound
            /\ fetches'[p] = 0
            /\ mu' = FALSE
            /\ keys' = keys /\ expiresAt' = expiresAt]_vars

\* C3 witness: a call ended with key-not-found without having sent a request.
C3_Witness ==
  \E p \in Procs : pc[p] = "done" /\ err[p] = KeyNotFound /\ fetches[p] = 0

\* C4: once a refresh has succeeded, no JWKS request is sent before the
\* cache duration has elapsed since that refresh.
C4_NoFetchWithinTTL ==
  [][\A p \in Procs :
       IssuesFetch(p) => (lastRefresh = Never \/ now >= lastRefresh + jwksCacheDuration)]_vars

\* C4 witness: after a refresh, and later than it, a call got its key from
\* the cache without sending a request.
C4_Witness ==
  \E p \in Procs :
    /\ pc[p] = "verify"
    /\ fetches[p] = 0
    /\ lastRefresh # Never
    /\ lastRefresh < now /\ now < lastRefresh + jwksCacheDuration

\* C5 as stated: the map holds a key only while expiresAt is in the future.
C5_KeysOnlyWhileFresh ==
  \A k \in Kids : keys[k] # NilKey => now < expiresAt

\* C5 amended: a key is put into the map only at a moment when expiresAt is
\* in the future (the refresh that installs it sets expiresAt); it may stay
\* in the map after expiresAt has passed, until the next refresh.
C5_KeysInstalledFresh ==
  [][\A k \in Kids : (keys'[k] # NilKey /\ keys'[k] # keys[k]) => now' < expiresAt']_vars

\* C5 witness: the map holds a key and expiresAt is in the future.
C5_Witness ==
  \E k \in Kids : keys[k] # NilKey /\ now < expiresAt /\ lastRefresh = now

\* C6: the cached map is at every moment the complete map of the document
\* of the last successful refresh (the empty map before the first one): no
\* interleaving exposes a partially built map.
C6_AtomicReplace ==
  keys = DocKeys(lastDoc)

\* C6 witness: a refresh is half way through a two-entry document, its
\* partial map differs from the cached one, and another goroutine waits.
C6_Witness ==
  \E p, q \in Procs :
    /\ pc[p] = "build" /\ idx[p] = 2 /\ Len(resp[p]) = 2
    /\ newKeys[p] # keys /\ newKeys[p] # DocKeys(resp[p])
    /\ keys # EmptyKeys
    /\ pc[q] = "lock"

\* C7: while the cache is fresh and lacks K2, every verification of a token
\* with kid K2 fails with the key-resolution error and leaves the cache as
\* it is, whatever the provider publishes; a lookup on an expired cache
\* sends a JWKS request, and if the document it gets has an acceptable K2
\* the lookup returns that key.
C7_RotationInsideTTL ==
  [][\A p \in Procs :
       /\ (LeavesCheck(p) /\ now < expiresAt /\ tok[p].Kid = "K2" /\ keys["K2"] = NilKey)
            => /\ pc'[p] = "done"
               /\ err'[p] # NoError /\ Head(err'[p]) = ErrGetKey
               /\ keys' = keys /\ expiresAt' = expiresAt
       /\ (LeavesCheck(p) /\ now >= expiresAt) => pc'[p] = "fetching"
       /\ (pc[p] = "build" /\ pc'[p] # "build" /\ tok[p].Kid = "K2"
           /\ DocKeys(resp[p])["K2"] # NilKey)
            => /\ pc'[p] = "verify"
               /\ publicKey'[p] = DocKeys(resp[p])["K2"]]_vars

\* C7 witness: inside the TTL of a refresh from a document without K2, a
\* verification of a K2 token has failed without a request.
C7_Witness ==
  \E p \in Procs :
    /\ pc[p] = "done" /\ tok[p].Kid = "K2"
    /\ err[p] # NoError /\ Head(err[p]) = ErrGetKey
    /\ fetches[p] = 0
    /\ lastDoc = DocK1 /\ lastRefresh < now /\ now < expiresAt

\* C8: a token whose signature does not verify under the resolved key ends
\* with the signature failure of jwt.Parse inside "token verification
\* failed", whatever its claims are: never the claims, never a claim error.
C8_SignatureBeforeClaims ==
  \A p \in Procs :
    (pc[p] = "done" /\ publicKey[p] # NilKey /\ tok[p].Alg \in ECDSAAlgs
     /\ tok[p].SignedBy # publicKey[p])
      => err[p] = <<ErrVerification, JwtSignatureInvalid>>

\* C8 witness: a forged token whose claims are all invalid was rejected.
C8_Witness ==
  \E p \in Procs :
    /\ pc[p] = "done" /\ tok[p].Alg = "ES256" /\ tok[p].SignedBy = ForgedKey
    /\ tok[p].Exp = VerifyT0 - 7200 /\ tok[p].Aud = "com.wrong.app"
    /\ tok[p].Iss = NoStr

\* C9: a token whose header algorithm is not an ECDSA algorithm is never
\* accepted: it does not pass jwt.Parse and its call ends with an error.
C9_NonECDSARejected ==
  \A p \in Procs :
    tok[p].Alg \notin ECDSAAlgs =>
      /\ pc[p] # "claims"
      /\ pc[p] = "done" => err[p] # NoError

\* C9 witness: an HS256 token whose kid resolved to a key was rejected.
C9_Witness ==
  \E p \in Procs :
    /\ pc[p] = "done" /\ tok[p].Alg = "HS256" /\ publicKey[p] = Key1
    /\ err[p] = <<ErrVerification, JwtUnverifiable>>

\* C10: a correctly signed token with matching aud and iss (and no other
\* defect) is accepted whenever now <= exp + 60 s.
C10_AcceptedWithinSkew ==
  \A p \in Procs :
    (/\ pc[p] = "done"
     /\ tok[p].Wellformed /\ tok[p].Alg \in ECDSAAlgs
     /\ publicKey[p] # NilKey /\ tok[p].SignedBy = publicKey[p]
     /\ tok[p].Aud = ExpectedAud /\ tok[p].Iss = AppleIssuer
     /\ tok[p].Nbf = NoNum /\ tok[p].Iat = NoNum
     /\ tok[p].Exp # NoNum /\ now <= tok[p].Exp + clockSkewToleranceSec)
      => err[p] = NoError

\* The goroutine's claim validation (lines 71-107) runs in this step, on a
\* token whose signature jwt.Parse has verified, with the clock reading now.
ValidatesClaims(p) == pc[p] = "claims" /\ pc'[p] = "done"

\* The goroutine's call returns in this step.
Returns(p) == pc[p] # "done" /\ pc'[p] = "done"

\* The exp check of lines 74-80 passes at clock reading t.
ExpPasses(t, c) == c.Exp # NoNum /\ ~(c.Exp + clockSkewToleranceSec < t)

\* The iat check of lines 83-87 passes at clock reading t.
IatPasses(t, c) == c.Iat = NoNum \/ ~(c.Iat > t + clockSkewToleranceSec)

\* C11: a correctly signed token whose exp lies 2 hours or more before the
\* verification is rejected, and the error returned is 'token has expired'
\* (TokenExpired, the outcome of the exp check of the claim validation).
C11_ExpiredIsTokenExpired ==
  \A p \in Procs :
    (/\ pc[p] = "done"
     /\ tok[p].Wellformed /\ tok[p].Alg \in ECDSAAlgs
     /\ publicKey[p] # NilKey /\ tok[p].SignedBy = publicKey[p]
     /\ tok[p].Exp # NoNum /\ tok[p].Exp + 2 * jwksCacheDuration <= VerifyT0)
      => err[p] = <<ErrExpired>>

\* C12: a token whose signature is valid, whose exp, iat and iss are valid
\* and whose aud is a string other than the expected audience is rejected
\* with 'invalid audience'; a call that returns claims had a token whose aud
\* equals the expected audience.
C12_WrongAudienceRejected ==
  [][\A p \in Procs :
       /\ (/\ ValidatesClaims(p)
           /\ tok[p].Aud \notin {NoStr, ExpectedAud}
           /\ ExpPasses(now, tok[p]) /\ IatPasses(now, tok[p])
           /\ tok[p].Iss = AppleIssuer)
            => err'[p] = <<ErrInvalidAud>>
       /\ (Returns(p) /\ err'[p] = NoError) => tok[p].Aud = ExpectedAud]_vars

\* C12 witness: a correctly signed, unexpired token of the Apple issuer
\* with another audience was rejected with 'invalid audience'.
C12_Witness ==
  \E p \in Procs :
    /\ pc[p] = "done" /\ err[p] = <<ErrInvalidAud>>
    /\ tok[p].SignedBy = publicKey[p] /\ tok[p].Alg = "ES256"
    /\ tok[p].Aud = "com.wrong.app" /\ tok[p].Iss = AppleIssuer
    /\ tok[p].Exp = VerifyT0 + 300

\* C13 as stated: a call returns claims only if iss is the Apple issuer,
\* and every signature-valid token with another iss string is rejected with
\* 'invalid issuer'.
C13_WrongIssuerIsInvalidIssuer ==
  [][\A p \in Procs :
       /\ (Returns(p) /\ err'[p] = NoError) => tok[p].Iss = AppleIssuer
       /\ (ValidatesClaims(p) /\ tok[p].Iss \notin {NoStr, AppleIssuer})
            => err'[p] = <<ErrInvalidIss>>]_vars

\* C13 amended: a call returns claims only if iss is the Apple issuer; a
\* signature-valid token with another iss string is rejected, and with
\* 'invalid issuer' when its exp, iat and aud checks pass.
C13_WrongIssuerRejected ==
  [][\A p \in Procs :
       /\ (Returns(p) /\ err'[p] = NoError) => tok[p].Iss = AppleIssuer
       /\ (ValidatesClaims(p) /\ tok[p].Iss \notin {NoStr, AppleIssuer})
            => /\ err'[p] # NoError
               /\ (/\ ExpPasses(now, tok[p]) /\ IatPasses(now, tok[p])
                   /\ tok[p].Aud = ExpectedAud)
                    => err'[p] = <<ErrInvalidIss>>]_vars

\* C13 witness: a correctly signed, unexpired token for the expected
\* audience with another issuer was rejected with 'invalid issuer'.
C13_Witness ==
  \E p \in Procs :
    /\ pc[p] = "done" /\ err[p] = <<ErrInvalidIss>>
    /\ tok[p].SignedBy = publicKey[p] /\ tok[p].Alg = "ES256"
    /\ tok[p].Aud = ExpectedAud
    /\ tok[p].Iss = "https://accounts.example.com"

\* C14 as stated: every signature-valid token with iat > now + 60 s is
\* rejected with 'token issued in the future'; iat <= now + 60 s and an
\* absent iat pass the iat check.
C14_FutureIatIsNotYetValid ==
  [][\A p \in Procs :
       ValidatesClaims(p) =>
         /\ ~IatPasses(now, tok[p]) => err'[p] = <<ErrFuture>>
         /\ IatPasses(now, tok[p]) => err'[p] # <<ErrFuture>>]_vars

\* C14 amended: a signature-valid token that passes the exp check is
\* rejected with 'token issued in the future' if iat > now + 60 s; with
\* iat <= now + 60 s or without iat it passes the iat check: it is never
\* rejected with that error, and it is accepted when exp, aud and iss pass.
C14_IatCheckedIfPresent ==
  [][\A p \in Procs :
       ValidatesClaims(p) =>
         /\ (~IatPasses(now, tok[p]) /\ ExpPasses(now, tok[p]))
              => err'[p] = <<ErrFuture>>
         /\ IatPasses(now, tok[p]) =>
              /\ err'[p] # <<ErrFuture>>
              /\ (/\ ExpPasses(now, tok[p]) /\ tok[p].Aud = ExpectedAud
                  /\ tok[p].Iss = AppleIssuer) => err'[p] = NoError]_vars

\* C14 witness: a token issued exactly 60 s after the clock reading was
\* accepted.
C14_Witness ==
  \E p \in Procs :
    /\ pc[p] = "done" /\ err[p] = NoError
    /\ tok[p].Iat = now + clockSkewToleranceSec

\* C14 witness of the rejection: a token issued 61 s after the clock
\* reading was rejected with 'token issued in the future'.
C14_WitnessFuture ==
  \E p \in Procs :
    /\ pc[p] = "done" /\ err[p] = <<ErrFuture>>
    /\ tok[p].Iat = now + clockSkewToleranceSec + 1

MissingClaimErrors == {<<ErrMissingExp>>, <<ErrMissingAud>>, <<ErrMissingIss>>}

LacksClaim(c) == c.Exp = NoNum \/ c.Aud = NoStr \/ c.Iss = NoStr

\* C15 as stated: a signature-valid token that lacks exp, aud or iss is
\* never accepted and is rejected with a 'missing ... claim' error.
C15_MissingIsMissingClaim ==
  [][\A p \in Procs :
       /\ (Returns(p) /\ err'[p] = NoError) => ~LacksClaim(tok[p])
       /\ (ValidatesClaims(p) /\ LacksClaim(tok[p]))
            => err'[p] \in MissingClaimErrors]_vars

\* C15 amended: a signature-valid token that lacks exp, aud or iss is never
\* accepted; it is rejected with 'missing exp claim' if exp is absent, with
\* 'missing aud claim' if aud is absent and the exp and iat checks pass, and
\* with 'missing iss claim' if iss is absent and the exp, iat and aud checks
\* pass.
C15_MissingClaimRejected ==
  [][\A p \in Procs :
       /\ (Returns(p) /\ err'[p] = NoError) => ~LacksClaim(tok[p])
       /\ (ValidatesClaims(p) /\ LacksClaim(tok[p])) =>
            /\ err'[p] # NoError
            /\ tok[p].Exp = NoNum => err'[p] = <<ErrMissingExp>>
            /\ (/\ ExpPasses(now, tok[p]) /\ IatPasses(now, tok[p])
                /\ tok[p].Aud = NoStr) => err'[p] = <<ErrMissingAud>>
            /\ (/\ ExpPasses(now, tok[p]) /\ IatPasses(now, tok[p])
                /\ tok[p].Aud = ExpectedAud /\ tok[p].Iss = NoStr)
                 => err'[p] = <<ErrMissingIss>>]_vars

\* C15 witness: correctly signed tokens without exp, without aud and
\* without iss are each rejected with the error of the missing claim.
C15_Witness ==
  \E p \in Procs :
    /\ pc[p] = "done" /\ err[p] = <<ErrMissingIss>>
    /\ tok[p].Iss = NoStr /\ tok[p].Aud = ExpectedAud /\ tok[p].Exp # NoNum

\* The JWKS document serves the key that signed the token, under the
\* token's kid, as an EC signing key of a known curve.
Serves(doc, t) ==
  \E i \in 1..Len(doc) :
    /\ doc[i].Kid = t.Kid /\ doc[i].Kty = "EC" /\ doc[i].Use = "sig"
    /\ doc[i].Crv \in KnownCurves /\ doc[i].Crv = t.SignedBy.Curve
    /\ B64Decodes(doc[i].X) /\ B64Value(doc[i].X) = t.SignedBy.X
    /\ B64Decodes(doc[i].Y) /\ B64Value(doc[i].Y) = t.SignedBy.Y

\* The claims of the token are valid at clock reading t: exp in the future,
\* iat (and nbf, if any) not in the future, aud and iss as expected.
GoodClaimsAt(t, c) ==
  /\ c.Exp # NoNum /\ t < c.Exp
  /\ c.Iat # NoNum /\ c.Iat <= t
  /\ c.Nbf = NoNum \/ c.Nbf <= t
  /\ c.Aud = ExpectedAud /\ c.Iss = AppleIssuer

\* C16: a token signed by a key the JWKS endpoint serves, with exp in the
\* future, iat not in the future, the expected aud and the Apple iss, is
\* accepted starting from a stale or empty cache: the stale cache makes the
\* call fetch, the fetched key is the one returned for the token's kid, the
\* token passes jwt.Parse and the claim validation, and the claims returned
\* are the whole payload of the token, sub included.
C16_ValidTokenAccepted ==
  [][\A p \in Procs :
       /\ (LeavesCheck(p) /\ ~(now < expiresAt)) => IssuesFetch(p)
       /\ (pc[p] = "build" /\ pc'[p] # "build" /\ Serves(resp[p], tok[p]))
            => pc'[p] = "verify" /\ publicKey'[p] = tok[p].SignedBy
       /\ (/\ pc[p] = "verify" /\ pc'[p] # "verify"
           /\ tok[p].Alg \in ECDSAAlgs
           /\ publicKey[p] # NilKey /\ publicKey[p] = tok[p].SignedBy
           /\ GoodClaimsAt(now, tok[p]))
            => pc'[p] = "claims"
       /\ (ValidatesClaims(p) /\ GoodClaimsAt(now, tok[p]))
            => /\ err'[p] = NoError
               /\ claims'[p] =
                    [exp |-> tok[p].Exp, nbf |-> tok[p].Nbf,
                     iat |-> tok[p].Iat, aud |-> tok[p].Aud,
                     iss |-> tok[p].Iss, sub |-> tok[p].Sub]]_vars

\* C16 witness: a call that found the cache stale, fetched the JWKS and
\* verified the token under the fetched key returned the token's claims
\* with the original sub.
C16_Witness ==
  \E p \in Procs :
    /\ pc[p] = "done" /\ err[p] = NoError /\ fetches[p] = 1
    /\ Serves(lastDoc, tok[p]) /\ publicKey[p] = tok[p].SignedBy
    /\ claims[p].sub = "apple-user-123" /\ claims[p].exp = tok[p].Exp

\* The token does not parse or its header has no string kid.
Malformed(t) == ~t.Wellformed \/ t.Kid = NoKid

MalformedToken == {<<ErrParse>>, <<ErrMissingKid>>}

\* The step is the entry of goroutine p into VerifyIDToken.
Enters(p) ==
  /\ pc[p] \in {"idle", "done"}
  /\ <<pc[p], tok[p], err[p]>> # <<pc'[p], tok'[p], err'[p]>>

\* C17: a token that cannot be parsed, or whose header has no string kid,
\* makes VerifyIDToken fail with 'failed to parse token' or 'missing kid in
\* token header' before any key resolution: the call returns in its first
\* step, takes no lock, sends no JWKS request and leaves the cache as it
\* was, and such a call is never inside getApplePublicKey or beyond it.
C17_MalformedBeforeKeyResolution ==
  [][\A p \in Procs :
       /\ (Enters(p) /\ Malformed(tok'[p])) =>
            /\ pc'[p] = "done" /\ err'[p] \in MalformedToken
            /\ ~tok'[p].Wellformed => err'[p] = <<ErrParse>>
            /\ mu' = mu /\ keys' = keys /\ expiresAt' = expiresAt
            /\ fetches'[p] = 0 /\ response'[p] = NoRequest
            /\ publicKey'[p] = NilKey /\ claims'[p] = NilClaims
       /\ (Malformed(tok'[p]) /\ pc'[p] # "idle") =>
            /\ pc'[p] = "done" /\ err'[p] \in MalformedToken
            /\ fetches'[p] = 0]_vars

\* C17 witness: a call with a token without kid has failed, without a
\* request of its own, while another goroutine holds the cache lock for
\* its JWKS request.
C17_Witness ==
  \E p, q \in Procs :
    /\ pc[p] = "done" /\ tok[p].Wellformed /\ tok[p].Kid = NoKid
    /\ err[p] = <<ErrMissingKid>> /\ fetches[p] = 0
    /\ pc[q] = "fetching" /\ mu = TRUE

\* C18: a refresh whose request fails in transport or gets a status other
\* than 200 ends with 'failed to fetch JWKS' / 'JWKS endpoint returned
\* status', one whose body does not decode ends with 'failed to decode
\* JWKS'; each of these, and 'key not found in JWKS' after a refresh, is
\* returned by VerifyIDToken wrapped in 'failed to get public key', after
\* exactly one JWKS request of the call; no call sends a second request.
C18_FetchFailurePropagates ==
  [][\A p \in Procs :
       /\ (pc[p] = "fetching" /\ pc'[p] = "done") =>
            /\ response'[p] \in FailedOutcomes
            /\ response'[p] = TransportError => err'[p] = <<ErrGetKey, ErrFetch>>
            /\ response'[p] = StatusUnavailable => err'[p] = <<ErrGetKey, ErrStatus>>
            /\ response'[p] = UndecodableBody => err'[p] = <<ErrGetKey, ErrDecode>>
            /\ fetches'[p] = 1
       /\ (pc[p] = "build" /\ pc'[p] = "done") =>
            /\ err'[p] = <<ErrGetKey, ErrKeyNotFound>>
            /\ fetches'[p] = 1
       /\ (pc[p] = "fetching" /\ pc'[p] # "fetching") =>
            pc'[p] = "done" \/ (pc'[p] = "build" /\ response'[p] = StatusOK)
       /\ fetches'[p] <= 1]_vars

\* C18 witness: a call whose JWKS request got a body that does not decode
\* has returned 'failed to get public key: failed to decode JWKS' after its
\* one request.
C18_Witness ==
  \E p \in Procs :
    /\ pc[p] = "done" /\ response[p] = UndecodableBody
    /\ err[p] = <<ErrGetKey, ErrDecode>> /\ fetches[p] = 1

\* What the specification requires of a JWKS entry that is installed.
Installable(k) ==
  /\ k.Kty = "EC" /\ k.Use = "sig"
  /\ k.X \in {"", "AQ", "Ag", "Aw"} /\ k.Y \in {"", "AQ", "Ag", "Aw"}
  /\ k.Crv \in {"P-256", "P-384", "P-521"}

\* The step is an iteration of goroutine p's loop over jwks.Keys.
Iterates(p) == pc[p] = "build" /\ idx'[p] = idx[p] + 1

\* The step ends goroutine p's refresh: it replaces the cache.
Replaces(p) == pc[p] = "build" /\ pc'[p] # "build"

\* C19: during a refresh the loop installs an entry under its kid if and
\* only if kty = EC, use = sig, x and y decode as unpadded base64url and crv
\* is P-256, P-384 or P-521; every other entry leaves the new map as it is
\* and the refresh goes on without an error, so that the map installed at
\* the end has a key for exactly the kids of the installable entries.
C19_InstalledIffAcceptable ==
  [][\A p \in Procs :
       /\ Iterates(p) =>
            LET k == resp[p][idx[p]]
            IN  /\ pc'[p] = "build" /\ err'[p] = err[p]
                /\ Installable(k) =>
                     /\ newKeys'[p][k.Kid] =
                          [Curve |-> k.Crv, X |-> B64Value(k.X), Y |-> B64Value(k.Y)]
                     /\ \A j \in Kids \ {k.Kid} : newKeys'[p][j] = newKeys[p][j]
                /\ ~Installable(k) => newKeys'[p] = newKeys[p]
       /\ Replaces(p) =>
            /\ \A j \in Kids :
                 keys'[j] # NilKey <=>
                   \E i \in 1..Len(resp[p]) :
                     resp[p][i].Kid = j /\ Installable(resp[p][i])
            /\ err'[p] \in {NoError, <<ErrGetKey, ErrKeyNotFound>>}]_vars

\* C19 witness: the cache was replaced from a response with an RSA entry
\* and an EC entry: the RSA entry was skipped, the EC entry is installed.
C19_Witness ==
  /\ lastDoc = DocK2
  /\ keys["K1"] = NilKey /\ keys["K2"] = Key2
  /\ \E p \in Procs : pc[p] = "done" /\ response[p] = StatusOK /\ err[p] = NoError

\* C19 witness for entries that are all skipped: the refresh succeeded and
\* installed an empty map.
C19_WitnessAllSkipped ==
  /\ lastDoc = DocBad /\ keys = EmptyKeys /\ now < expiresAt

\* The key a JWKS document publishes under kid j: that of its last
\* installable entry with this kid, NilKey if it has none.
RECURSIVE Published(_, _, _)
Published(doc, n, j) ==
  IF n = 0 THEN NilKey
  ELSE IF doc[n].Kid = j /\ Installable(doc[n])
    THEN [Curve |-> doc[n].Crv, X |-> B64Value(doc[n].X), Y |-> B64Value(doc[n].Y)]
    ELSE Published(doc, n - 1, j)

\* C20: a successful refresh replaces the whole cached map by exactly the
\* acceptable keys of the fetched response, whatever the map held before (a
\* key of the old map that the response lacks is gone), and sets expiresAt
\* to one hour after the refresh, so that the cache is fresh right after it.
C20_RefreshReplacesCache ==
  [][\A p \in Procs :
       Replaces(p) =>
         /\ \A j \in Kids : keys'[j] = Published(resp[p], Len(resp[p]), j)
         /\ expiresAt' = now + 3600
         /\ now' < expiresAt']_vars

\* C20 witness: a goroutine verified a token under K1 from the cache, and a
\* later refresh from a response without K1 left a fresh cache without K1.
C20_Witness ==
  \E q \in Procs :
    /\ pc[q] = "done" /\ err[q] = NoError /\ publicKey[q] = Key1
    /\ lastDoc = DocK2 /\ keys["K1"] = NilKey /\ keys["K2"] = Key2
    /\ lastRefresh = now /\ now < expiresAt

\* The step ends goroutine p's fetch without a decoded JWKS document.
FailsRefresh(p) == pc[p] = "fetching" /\ pc'[p] = "done"

\* C27: a refresh that fails (the request cannot be created, the transport
\* fails or the ctx is cancelled, the status is not 200, the body does not
\* decode) leaves the cached map and expiresAt as they were and releases
\* the lock, so the cache is still stale; a lookup that finds the cache
\* stale makes a fetch attempt of its own, and so does every caller that
\* was waiting in Lock when the failed refresh ended.
C27_FailedRefreshKeepsCacheStale ==
  [][\A p \in Procs :
       /\ FailsRefresh(p) =>
            /\ response'[p] \in FailedOutcomes
            /\ keys' = keys /\ expiresAt' = expiresAt
            /\ ~(now' < expiresAt') /\ mu' = FALSE
       /\ (LeavesCheck(p) /\ ~(now < expiresAt)) =>
            IssuesFetch(p) /\ fetches'[p] = 1
       /\ (LeavesCheck(p) /\ waited[p] = WaitedFailed) =>
            IssuesFetch(p) /\ fetches'[p] = 1]_vars

\* C27 witness: after a goroutine's refresh failed in transport, with the
\* cache never filled, another goroutine is making its own fetch attempt.
C27_Witness ==
  \E p, q \in Procs :
    /\ pc[q] = "done" /\ err[q] = <<ErrGetKey, ErrFetch>>
    /\ response[q] = TransportError
    /\ pc[p] = "fetching" /\ fetches[p] = 1
    /\ lastRefresh = Never /\ expiresAt = ZeroTime /\ keys = EmptyKeys

\* C28: a stale key is never served: a lookup returns a key either from the
\* cached map while now < expiresAt holds under the lock, or from the map
\* that its own refresh has just installed (fresh from that moment); a lookup
\* that finds the cache stale returns nothing from the map it found.
C28_NoStaleKeyServed ==
  [][\A p \in Procs :
       /\ (pc'[p] = "verify" /\ pc[p] # "verify") =>
            \/ /\ pc[p] = "check" /\ now < expiresAt
               /\ publicKey'[p] = keys[tok[p].Kid] /\ publicKey'[p] # NilKey
            \/ /\ pc[p] = "build" /\ keys' = newKeys[p]
               /\ lastRefresh' = now /\ now' < expiresAt'
               /\ publicKey'[p] = keys'[tok[p].Kid] /\ publicKey'[p] # NilKey
       /\ (LeavesCheck(p) /\ ~(now < expiresAt)) =>
            pc'[p] = "fetching" /\ publicKey'[p] = NilKey]_vars

\* C28 witness: the cache is stale and still holds the key of the kid a
\* goroutine asks for, and that goroutine is fetching the JWKS.
C28_Witness ==
  \E p \in Procs :
    /\ pc[p] = "fetching" /\ publicKey[p] = NilKey
    /\ lastRefresh # Never /\ ~(now < expiresAt)
    /\ keys[tok[p].Kid] # NilKey

\* C29 as stated: after a refresh whose own lookup failed with 'key not found
\* in JWKS', every lookup during the next hour fails with that error without
\* a fetch.
C29_AllLookupsFailAfterMiss ==
  [][\A p \in Procs :
       (/\ LeavesCheck(p) /\ now < expiresAt
        /\ lastRefresh # Never /\ keys[lastKid] = NilKey)
         => /\ pc'[p] = "done" /\ err'[p] = KeyNotFound
            /\ fetches'[p] = 0]_vars

\* C29 amended: a refresh whose response decodes installs the new map and
\* sets expiresAt one hour ahead even when its own lookup fails with 'key
\* not found in JWKS', also when the new map is empty; while that cache is
\* fresh every lookup of a kid that the installed map lacks (every lookup,
\* if the map is empty) fails with that error without a fetch and leaves
\* the cache as it is.
C29_MissingKeyRefreshInstalls ==
  [][\A p \in Procs :
       /\ (Replaces(p) /\ newKeys[p][tok[p].Kid] = NilKey) =>
            /\ keys' = newKeys[p] /\ expiresAt' = now + 3600
            /\ lastRefresh' = now
            /\ pc'[p] = "done" /\ err'[p] = KeyNotFound
       /\ (/\ LeavesCheck(p) /\ now < expiresAt
           /\ (keys[tok[p].Kid] = NilKey \/ keys = EmptyKeys)) =>
            /\ pc'[p] = "done" /\ err'[p] = KeyNotFound
            /\ fetches'[p] = 0
            /\ keys' = keys /\ expiresAt' = expiresAt]_vars

\* C29 witness: a refresh from a response without any acceptable key
\* installed the empty map, and a later lookup failed on the fresh cache
\* without a fetch.
C29_Witness ==
  \E p \in Procs :
    /\ lastDoc = DocBad /\ keys = EmptyKeys /\ now < expiresAt
    /\ pc[p] = "done" /\ err[p] = KeyNotFound /\ fetches[p] = 0

\* The token parses and has a kid, but jwt.Parse rejects it: its algorithm
\* is not ECDSA or its signature is not that of the published key.
Unverifiable(t) ==
  /\ ~Malformed(t)
  /\ t.Alg \notin ECDSAAlgs \/ t.SignedBy = ForgedKey

\* C30: key resolution is driven by the unverified header: a parseable
\* token with a kid whose signature is invalid or whose algorithm is not
\* ECDSA takes the cache lock like any other, makes a fetch attempt if the
\* cache is stale and replaces the cache when the fetch succeeds; it is
\* rejected only afterwards, by jwt.Parse.
C30_UnverifiedHeaderDrivesLookup ==
  [][\A p \in Procs :
       /\ (Enters(p) /\ Unverifiable(tok'[p])) =>
            pc'[p] = "lock" /\ err'[p] = NoError
       /\ (Unverifiable(tok[p]) /\ LeavesCheck(p) /\ ~(now < expiresAt)) =>
            IssuesFetch(p)
       /\ (Unverifiable(tok[p]) /\ Replaces(p)) =>
            /\ keys' = newKeys[p] /\ expiresAt' = now + 3600
            /\ lastKid' = tok[p].Kid
       /\ (Unverifiable(tok[p]) /\ Returns(p) /\ pc[p] \notin {"check", "fetching", "build"}) =>
            /\ pc[p] = "verify" /\ publicKey[p] # NilKey
            /\ err'[p] \in {<<ErrVerification, JwtUnverifiable>>,
                            <<ErrVerification, JwtSignatureInvalid>>}]_vars

\* C30 witness: an HS256 token was rejected by jwt.Parse after its call had
\* fetched the JWKS and replaced the cache.
C30_Witness ==
  \E p \in Procs :
    /\ pc[p] = "done" /\ tok[p].Alg = "HS256"
    /\ err[p] = <<ErrVerification, JwtUnverifiable>>
    /\ fetches[p] = 1 /\ response[p] = StatusOK
    /\ lastRefresh = now /\ lastKid = tok[p].Kid /\ keys[tok[p].Kid] = publicKey[p]

\* C25: the cache lock is released on every exit path of a key lookup: the
\* mutex is held only while a goroutine is between Lock and its return, and
\* every step that leaves the lookup unlocks.  Hence, if every JWKS fetch
\* ends, a goroutine that is blocked in Lock eventually holds the lock, and
\* a goroutine that holds it eventually returns from the lookup.
C25_LockReleasedAndLookupsReturn ==
  /\ [](mu = TRUE <=> \E p \in Procs : InCritical(p))
  /\ \A p \in Procs : (pc[p] = "lock") ~> InCritical(p)
  /\ \A p \in Procs : InCritical(p) ~> (pc[p] \in {"verify", "claims", "done"})
  /\ \A p \in Procs : (pc[p] = "lock") ~> (pc[p] = "done")

\* C25 witness: a lookup ended with the request-construction error and the
\* mutex is free again while another goroutine is still blocked in Lock.
C25_Witness ==
  \E p, q \in Procs :
    /\ pc[p] = "done" /\ err[p] = <<ErrGetKey, ErrCreateRequest>>
    /\ pc[q] = "lock" /\ mu = FALSE

\* Goroutine p's ExchangeCode call has returned.
Exchanged(p) == call[p].Fn = "ExchangeCode" /\ pc[p] = "done"

\* The request of p's ExchangeCode call failed: it was not created, got no
\* response, got a status other than 200, or a body that is not JSON.
ExchangeFailed(p) ==
  \/ reply[p].Kind # Responded
  \/ reply[p].Status # 200
  \/ ~reply[p].Body.Json

\* C21: ExchangeCode of either provider returns exactly one of a
\* TokenResponse and an error; when the request cannot be created, the
\* transport fails, the status is not 200 (400 for one) or the body does not
\* decode, it returns no TokenResponse and the one error 'token exchange
\* failed', whatever the status and the body were; otherwise it returns the
\* decoded TokenResponse and no error.
C21_ExchangeFailuresCollapse ==
  \A p \in Procs :
    Exchanged(p) =>
      /\ tokenResponse[p].Nil <=> err[p] # NoError
      /\ ExchangeFailed(p) =>
           tokenResponse[p] = NilTokenResponse /\ err[p] = <<ErrExchange>>
      /\ ~ExchangeFailed(p) =>
           /\ err[p] = NoError
           /\ tokenResponse[p].AccessToken = reply[p].Body.access_token
           /\ tokenResponse[p].IDToken = reply[p].Body.id_token

C21_Witness ==
  \E p \in Procs, q \in Procs :
    /\ Exchanged(p) /\ call[p].Provider = "google"
    /\ reply[p].Kind = Responded /\ reply[p].Status = 400
    /\ err[p] = <<ErrExchange>> /\ tokenResponse[p].Nil
    /\ Exchanged(q) /\ call[q].Provider = "apple"
    /\ reply[q].Kind = TransportError /\ err[q] = err[p]

\* C22: an ExchangeCode call sends at most one request to the token endpoint
\* (none when the request cannot be created), and the step in which its
\* request ends, failed or not, is the return of the call: no other request
\* is sent.
C22_SingleAttempt ==
  [][\A p \in Procs :
       /\ posts'[p] <= 1
       /\ posts'[p] > posts[p] =>
            pc[p] \in {"idle", "done"} /\ call'[p].Fn = "ExchangeCode"
       /\ pc[p] = "post" /\ <<pc[p], reply[p], posts[p]>> # <<pc'[p], reply'[p], posts'[p]>> =>
            /\ pc'[p] = "done"
            /\ posts'[p] = posts[p]
       /\ Exchanged(p)' /\ reply'[p].Kind = RequestError => posts'[p] = 0]_vars

C22_Witness ==
  \E p \in Procs :
    /\ Exchanged(p) /\ posts[p] = 1
    /\ reply[p].Kind = Responded /\ reply[p].Status = 503
    /\ err[p] = <<ErrExchange>>

\* ES256 verification of a client secret under a public key.
VerifiesES256(jwt, pub) ==
  /\ ~jwt.Empty
  /\ jwt.Alg = "ES256"
  /\ pub.Curve = "P-256"
  /\ jwt.SignedBy = pub

\* The step is a GenerateClientSecret call of goroutine p.
GeneratesSecret(p) ==
  /\ call'[p].Fn = "GenerateClientSecret"
  /\ <<call[p], secret[p], err[p]>> # <<call'[p], secret'[p], err'[p]>>

\* C23: a GenerateClientSecret(teamID, clientID, keyID, pem) call that
\* succeeds returns an ES256 JWT that verifies under the public key of the
\* private key in pem, with header kid = keyID, iss = teamID, sub = clientID,
\* aud = https://appleid.apple.com, iat = the clock at the call and
\* exp = iat + 300 s; a call that fails returns the empty secret, and a call
\* whose input is not PEM fails.
C23_FreshClientSecret ==
  [][\A p \in Procs :
       GeneratesSecret(p) =>
         /\ err'[p] = NoError =>
              /\ VerifiesES256(secret'[p], PublicOf(call'[p].Pem.Key))
              /\ secret'[p].Kid = call'[p].KeyID
              /\ secret'[p].Iss = call'[p].TeamID
              /\ secret'[p].Sub = call'[p].ClientID
              /\ secret'[p].Aud = "https://appleid.apple.com"
              /\ secret'[p].Iat = now
              /\ secret'[p].Exp = secret'[p].Iat + 300
         /\ err'[p] # NoError => secret'[p].Empty
         /\ ~call'[p].Pem.Pem => err'[p] # NoError /\ secret'[p].Empty]_vars

C23_Witness ==
  \E p \in Procs :
    /\ call[p].Fn = "GenerateClientSecret" /\ pc[p] = "done"
    /\ err[p] = NoError /\ ~secret[p].Empty
    /\ secret[p].Iat > 0 /\ secret[p].Iat = now
    /\ secret[p].Kid = "KEY789"

\* The 6-bit value of a character of the URL-safe alphabet.
URLIndex(c) == CHOOSE i \in 0..63 : URLChar(i) = c

URLAlphabet == {URLChar(i) : i \in 0..63}

\* The bytes an unpadded base64url string stands for.
RECURSIVE RawURLDecode(_)
RawURLDecode(s) ==
  IF Len(s) < 2 THEN <<>>
  ELSE IF Len(s) = 2
    THEN << URLIndex(s[1]) * 4 + URLIndex(s[2]) \div 16 >>
  ELSE IF Len(s) = 3
    THEN << URLIndex(s[1]) * 4 + URLIndex(s[2]) \div 16,
            (URLIndex(s[2]) % 16) * 16 + URLIndex(s[3]) \div 4 >>
  ELSE << URLIndex(s[1]) * 4 + URLIndex(s[2]) \div 16,
          (URLIndex(s[2]) % 16) * 16 + URLIndex(s[3]) \div 4,
          (URLIndex(s[3]) % 4) * 64 + URLIndex(s[4]) >>
       \o RawURLDecode(SubSeq(s, 5, Len(s)))

\* s is the unpadded base64url encoding of the bytes b.
IsRawURLEncodingOf(s, b) ==
  /\ \A i \in 1..Len(s) : s[i] \in URLAlphabet
  /\ Len(s) = (Len(b) * 4 + 2) \div 3
  /\ RawURLDecode(s) = b
  /\ RawURLEncode(RawURLDecode(s)) = s

\* C24: for byteLength > 0, GeneratePKCE returns a pair whose verifier is
\* the unpadded base64url encoding of the byteLength random bytes and whose
\* challenge is the unpadded base64url encoding of the SHA-256 digest of the
\* verifier string, with no error; when rand.Read fails it returns no pair
\* and an error.
C24_ChallengeIsDigestOfVerifier ==
  pkce.Called =>
    IF random.Ok
      THEN /\ ~pkce.Nil /\ pkce.Err = NoError
           /\ Len(random.Bytes) = byteLength
           /\ IsRawURLEncodingOf(pkce.Verifier, random.Bytes)
           /\ IsRawURLEncodingOf(pkce.Challenge, Sum256(pkce.Verifier))
      ELSE pkce.Nil /\ pkce.Err # NoError

C24_Witness ==
  /\ pkce.Called /\ ~pkce.Nil
  /\ byteLength = 2 /\ random.Bytes = <<251, 255>>
  /\ pkce.Verifier = <<45, 95, 56>>

\* The step is one of goroutine p in ExchangeCode or GenerateClientSecret.
ServiceStep(p) ==
  /\ call'[p].Fn \in {"ExchangeCode", "GenerateClientSecret"}
  /\ <<pc[p], call[p], reply[p], secret[p], err[p]>>
       # <<pc'[p], call'[p], reply'[p], secret'[p], err'[p]>>

\* C26: the cache changes only lazily inside a lookup: keys and expiresAt
\* change only in the step that ends the refresh of a VerifyIDToken call
\* whose cache check found the cache stale and whose request got status 200
\* and a body that decoded; a fetch is issued only by the cache check of a
\* lookup, and only on a stale cache; a check on a fresh cache (hit or
\* miss), a tick of the clock and a step of ExchangeCode or
\* GenerateClientSecret leave keys and expiresAt as they were.
C26_CacheChangesOnlyInStaleLookup ==
  [][/\ <<keys, expiresAt>>' # <<keys, expiresAt>> =>
          \E p \in Procs :
            /\ Replaces(p)
            /\ call[p] = VerifyCall
            /\ fetches[p] = 1
            /\ response[p] = StatusOK
            /\ ~(now < expiresAt)
     /\ \A p \in Procs :
          /\ (fetches'[p] > fetches[p] \/ (pc'[p] = "fetching" /\ pc[p] # "fetching")) =>
               /\ IssuesFetch(p)
               /\ call[p] = VerifyCall
               /\ ~(now < expiresAt)
          /\ pc[p] \in {"fetching", "build"} => fetches[p] = 1 /\ call[p] = VerifyCall
          /\ LeavesCheck(p) /\ now < expiresAt =>
               /\ pc'[p] \in {"verify", "done"}
               /\ UNCHANGED << keys, expiresAt, fetches >>
          /\ ServiceStep(p) => UNCHANGED << keys, expiresAt >> /\ fetches'[p] = 0
     /\ now' # now => UNCHANGED << keys, expiresAt, fetches >>]_vars

C26_Witness ==
  \E p \in Procs, q \in Procs :
    /\ keys = DocKeys(DocK1) /\ now < expiresAt /\ now > lastRefresh
    /\ call[p] = VerifyCall /\ pc[p] = "done"
    /\ err[p] = <<ErrGetKey, ErrKeyNotFound>> /\ fetches[p] = 0
    /\ Exchanged(q) /\ err[q] = NoError

====
